---- MODULE Spec2Model ----
(***************************************************************************)
(* Model of the Ataxx tournament engine: the hybrid dispatch agent          *)
(* (ab_mcts_domain_agent.py), the score store (move_scores.py) and the      *)
(* tournament runner with its cooperative game loop (tournament_runner.py). *)
(* The board-rule engine (AtaxxState) and the search agents are external;   *)
(* the board is abstracted to piece counts and the agents to                *)
(* nondeterministic choices.                                                *)
(***************************************************************************)
EXTENDS Integers, Sequences, FiniteSets, TLC

(* ------------------------------ bounds --------------------------------- *)
MaxEmpty == 1        \* empty cells of the initial board, over a whole tournament
MaxGameEmpty == 2    \* empty cells of the initial board, over a one-game match
MaxMoves == 1        \* jump moves are offered only while move_count < MaxMoves

(* ------------------------ configurations explored ---------------------- *)
GamesPerMatch == {1, 2}
Thresholds == {1, 2}

\* Python None, for a move and for the result of play_game
None == <<>>

(* identity pairings explored (algo1, algo2) ------------------------------ *)
AlgoPairs == { <<"AB+MCTS_Domain_600", "Minimax+AB">> }

FirstPlayerArgs == {"B", "W"}
Delays == {0, 1}

(* moves an agent can return / score: (r, c, nr, nc) ---------------------- *)
Moves == { <<0, 0, 1, 1>>, <<0, 0, 2, 2>> }
Scores == {1}

\* moves the agents of a game publish scores for
ScoredMoves == { <<0, 0, 1, 1>> }

EmptyMap == [m \in {} |-> 0]

(* ----------------- the score channel used by two threads --------------- *)
MaxBatch == 2        \* entries of one store_move_scores batch

\* moves and scores (in tenths) written to the channel, and agent names
ChanMoves == { <<0, 0, 1, 1>>, <<0, 0, 2, 2>>, <<3, 3, 2, 2>> }
ChanScores == {2, 4, 9}
ChanNames == {"X", "Y"}

\* history value: no score written for any move (0 stands for "no entry")
NoneWritten == [m \in ChanMoves |-> 0]

(* ------------------------- move_scores.py ------------------------------ *)
\* MoveScoreManager.__init__
NewMoveScoreManager == [scores |-> EmptyMap, enabled |-> FALSE, agent_name |-> ""]

\* enable_score_collection without the clear (mutation of the code)
enable_keeps_scores(msm, agent_name) ==
  [msm EXCEPT !.enabled = TRUE, !.agent_name = agent_name]

enable_score_collection(msm, agent_name) ==
  [msm EXCEPT !.enabled = TRUE, !.scores = EmptyMap, !.agent_name = agent_name]

\* disable that leaves collection active (mutation of the code)
disable_keeps_enabled(msm) ==
  [msm EXCEPT !.agent_name = ""]

disable_score_collection(msm) ==
  [msm EXCEPT !.enabled = FALSE, !.agent_name = ""]

is_enabled(msm) == msm.enabled

\* an update in which the entries already present win (mutation of the code)
UpdateKeepsOld(old, upd) ==
  [m \in (DOMAIN old) \cup (DOMAIN upd) |->
     IF m \in DOMAIN old THEN old[m] ELSE upd[m]]

\* dict.update: entries of upd override, the others are kept
Update(old, upd) ==
  [m \in (DOMAIN old) \cup (DOMAIN upd) |->
     IF m \in DOMAIN upd THEN upd[m] ELSE old[m]]

store_move_score(msm, move, score) ==
  IF msm.enabled
    THEN [msm EXCEPT !.scores = Update(msm.scores, [m \in {move} |-> score])]
    ELSE msm

store_move_scores(msm, move_scores) ==
  IF msm.enabled
    THEN [msm EXCEPT !.scores = Update(msm.scores, move_scores)]
    ELSE msm

get_move_scores(msm) == msm.scores

clear_scores(msm) == [msm EXCEPT !.scores = EmptyMap]

get_current_agent_name(msm) == msm.agent_name

(* --------------------- ab_mcts_domain_agent.py ------------------------- *)
\* dispatch with >= instead of > (mutation of the code)
DelegateGeq(empty_cells, threshold) ==
  IF empty_cells >= threshold THEN "ab_agent" ELSE "mcts_agent"

\* which wrapped strategy ABMCTSDomainAgent.get_move calls
Delegate(empty_cells, threshold) ==
  IF empty_cells > threshold THEN "ab_agent" ELSE "mcts_agent"

DelegateLabel(d) ==
  IF d = "ab_agent" THEN "AB+MCTS_Domain(using_Minimax)"
                    ELSE "AB+MCTS_Domain(using_MCTS)"

\* a label written whether or not collection is active (mutation of the code)
HybridLabelWriteAlways(msm, d) == [msm EXCEPT !.agent_name = DelegateLabel(d)]

\* lines 14-15 / 18-19: if move_score_manager.is_enabled():
\* move_score_manager._agent_name = <label>
HybridLabelWrite(msm, d) ==
  IF msm.enabled THEN [msm EXCEPT !.agent_name = DelegateLabel(d)] ELSE msm

\* a dispatcher that makes up a move when its strategy has none (mutation of
\* the code)
HybridReturnInvents(v) == IF v = << >> THEN <<0, 0, 1, 1>> ELSE v

\* lines 16 / 20: return self.ab_agent.get_move(state) /
\* return self.mcts_agent.get_move(state)
HybridReturn(v) == v

(* ------------------------ tournament_runner.py ------------------------- *)
\* the two colours exchanged (mutation of the code)
FirstPlayerOfSwapped(arg) == IF arg = "B" THEN -1 ELSE 1

\* TournamentRunner.__init__: first_player string to colour marker
FirstPlayerOf(arg) == IF arg = "B" THEN 1 ELSE -1

IsHybrid(algo_name) == algo_name \in {"AB+MCTS_Domain_600"}

NewResults(a1, a2) ==
  [name \in {a1, a2} |->
     [wins |-> 0, losses |-> 0, draws |-> 0, avg_pieces |-> 0, games_played |-> 0]]

\* colour assignment that ignores the round (mutation of the code)
XPlayerNoSwap(agent1_name, agent2_name, forward) == agent1_name

\* play_game: identity holding X (+1) and O (-1)
XPlayer(agent1_name, agent2_name, forward) ==
  IF forward THEN agent1_name ELSE agent2_name

OPlayer(agent1_name, agent2_name, forward) ==
  IF forward THEN agent2_name ELSE agent1_name

(* ----------------- board-rule engine (external collaborator) ----------- *)
\* abstract board: piece counts, empty cells, side to move, and which side
\* (if any) currently has no legal move
InitialBoards(max_empty) ==
  { [x |-> 1, o |-> 1, empty |-> e] : e \in 0..max_empty }
    \cup { [x |-> 1, o |-> 0, empty |-> max_empty] }

AtaxxState(initial_board, current_player) ==
  [x |-> initial_board.x, o |-> initial_board.o, empty |-> initial_board.empty,
   current_player |-> current_player, stuck |-> 0]

is_game_over(s) == s.empty = 0 \/ s.x = 0 \/ s.o = 0

has_legal_moves(s) == s.stuck # s.current_player

get_empty_cells(s) == s.empty

get_winner(s) == IF s.x > s.o THEN 1 ELSE IF s.o > s.x THEN -1 ELSE 0

is_clone(move) ==
  LET abs(n) == IF n < 0 THEN -n ELSE n
  IN abs(move[1] - move[3]) <= 1 /\ abs(move[2] - move[4]) <= 1

Min(a, b) == IF a < b THEN a ELSE b

\* the boards make_move can produce: a clone fills an empty cell and lands
\* next to no opposing piece, a jump fills none and converts one opposing
\* piece when the opponent has two or more; the side to move flips; the
\* engine decides whether the side now to move has a legal move
make_move(s, move) ==
  LET mine == IF s.current_player = 1 THEN s.x ELSE s.o
      theirs == IF s.current_player = 1 THEN s.o ELSE s.x
      gain == IF is_clone(move) THEN 1 ELSE 0
      k == IF is_clone(move) THEN 0 ELSE Min(theirs - 1, 1)
      board == [x |-> IF s.current_player = 1 THEN mine + gain + k ELSE theirs - k,
                o |-> IF s.current_player = 1 THEN theirs - k ELSE mine + gain + k,
                empty |-> s.empty - gain,
                current_player |-> -s.current_player,
                stuck |-> 0]
  IN IF is_game_over(board)
       THEN { board }
       ELSE { board, [board EXCEPT !.stuck = -s.current_player] }

VARIABLES
  algo1, algo2, games_per_match, first_player_arg, first_player, delay,
  transition_threshold, initial_board,
  running, paused, results,
  move_score_manager,
  pc, round, game_num,
  state, current_x_player, current_o_player, move_count, x_pieces, o_pieces,
  current_agent_name, move, raised, result,
  invoked,                 \* wrapped strategies called by the pending hybrid get_move
  calls_since_enable,      \* history: get_move calls since the latest enable
  entries_before_enable,   \* history: the store held entries when the latest enable ran
  recorded_this_turn,      \* history: moves written since the latest enable or clear
  games,                   \* history: one record per game started
  cancelled_at,            \* history: pc at which running became false
  results_at_cancel,       \* history: the results table when running became false
  validated, saved,        \* history: validate_results ran / the rows of each save_results call
  since_call,              \* history: "none" before the first agent call of a game, then
                           \* whether an awaited sleep was entered since the latest call
  lock,                    \* MoveScoreManager._lock: "free" or the thread holding it
  p_pc, p_op, p_todo,      \* producer thread: position, the call in progress, statements left
  p_before,                \* history: the store when the producer's call took the lock
  c_pc, c_op, observed,    \* consumer thread: position, the call in progress, its return value
  expected, session_open,  \* history: scores written since the latest enable or clear of an
                           \* open session / an enable call was made and no disable since
  h_pc,                    \* a direct caller of ABMCTSDomainAgent.get_move: its position
  h_result, h_return,      \* what the wrapped strategy returned / what get_move returned
  s_pc,                    \* main() constructing a TournamentRunner: its position
  s_algo1, s_algo2,        \* the two identity names, as sequences of tokens
  s_iterations,            \* the configured default iteration budget
  s_map_dir,               \* the directory "map": "present" or "absent"
  s_map_file,              \* the map_file argument, "" for None
  s_available_maps,        \* self.available_maps; set is FALSE before it is assigned
  s_board,                 \* self.initial_board: "none", "loaded" or "default"
  s_agents,                \* self.agents: name -> [kind, iterations]
  s_error,                 \* the exception that ended setup and the name it was raised on
  l_pc,                    \* load_map_from_file: its position
  l_r,                     \* rows read so far
  l_line,                  \* the line read last
  l_board,                 \* the board being filled
  v_pc,                    \* the end of run_tournament (lines 284-302): its position
  v_results,               \* self.results when validation is reached
  v_games_per_match,
  v_warnings,              \* the warnings validate_results printed
  v_saved,                 \* the rows handed to save_results
  runs,                    \* run_tournament calls made on the runner
  f_pc,                    \* save_results: its position
  f_platform,              \* platform.system()
  f_results,               \* self.results when save_results is called
  f_store, f_store0,       \* the record store: now / when save_results was called
  f_new, f_combined,       \* new_df / combined_df
  f_printed,               \* the rows printed instead of saved
  f_failed_at,             \* the step of save_results that raised, "" for none
  d_played,                \* history: the moves applied in the Round 1 game and
                           \* the boards they gave
  n_snap,                  \* the dict a get_move_scores call returned to its caller
  n_op                     \* the call on the score store made last

cfg == <<algo1, algo2, games_per_match, first_player_arg, first_player, delay,
         transition_threshold, initial_board>>
gamevars == <<state, current_x_player, current_o_player, move_count,
              x_pieces, o_pieces, current_agent_name, move, raised, since_call>>
tourvars == <<round, game_num, games, validated, saved>>
flags == <<running, paused, cancelled_at, results_at_cancel>>
scorehist == <<calls_since_enable, entries_before_enable, recorded_this_turn>>
hybridhist == <<invoked>>
chan == <<lock, p_pc, p_op, p_todo, p_before, c_pc, c_op, observed, expected,
          session_open>>
hyb == <<h_pc, h_result, h_return>>
setup == <<s_pc, s_algo1, s_algo2, s_iterations, s_map_dir, s_map_file,
           s_available_maps, s_board, s_agents, s_error>>
load == <<l_pc, l_r, l_line, l_board>>
valid == <<v_pc, v_results, v_games_per_match, v_warnings, v_saved>>
save == <<f_pc, f_platform, f_results, f_store, f_store0, f_new, f_combined,
          f_printed, f_failed_at>>
det == <<d_played>>
snap == <<n_snap, n_op>>
extra == <<save, det, snap>>
\* the variables the tournament runner does not touch
beside_runner == <<chan, hyb, setup, load, valid, extra, runs>>
vars == <<algo1, algo2, games_per_match, first_player_arg, first_player, delay,
          transition_threshold, initial_board, running, paused, results,
          move_score_manager, pc, round, game_num,
          state, current_x_player, current_o_player, move_count,
          x_pieces, o_pieces, current_agent_name, move, raised, result,
          invoked, calls_since_enable, entries_before_enable,
          recorded_this_turn, games, cancelled_at, results_at_cancel,
          validated, saved, since_call, lock, p_pc, p_op, p_todo, p_before,
          c_pc, c_op, observed, expected, session_open, h_pc, h_result,
          h_return, s_pc, s_algo1, s_algo2, s_iterations, s_map_dir,
          s_map_file, s_available_maps, s_board, s_agents, s_error,
          l_pc, l_r, l_line, l_board, v_pc, v_results, v_games_per_match,
          v_warnings, v_saved, runs, f_pc, f_platform, f_results, f_store,
          f_store0, f_new, f_combined, f_printed, f_failed_at, d_played,
          n_snap, n_op>>

\* the runner after __init__, for the given games-per-match values, boards
\* and transition thresholds
RunnerInitFor(pairs, match_sizes, boards, thresholds) ==
  /\ \E p \in pairs : algo1 = p[1] /\ algo2 = p[2]
  /\ games_per_match \in match_sizes
  /\ first_player_arg \in FirstPlayerArgs
  /\ first_player = FirstPlayerOf(first_player_arg)
  /\ delay \in Delays
  /\ transition_threshold \in thresholds
  /\ initial_board \in boards
  /\ running = TRUE
  /\ paused = FALSE
  /\ results = NewResults(algo1, algo2)
  /\ move_score_manager = NewMoveScoreManager
  /\ pc = "idle"
  /\ round = 1
  /\ game_num = 0
  /\ state = AtaxxState(initial_board, first_player)
  /\ current_x_player = algo1
  /\ current_o_player = algo2
  /\ move_count = 0
  /\ x_pieces = 0
  /\ o_pieces = 0
  /\ current_agent_name = ""
  /\ move = None
  /\ raised = FALSE
  /\ result = None
  /\ invoked = {}
  /\ calls_since_enable = 0
  /\ entries_before_enable = FALSE
  /\ recorded_this_turn = {}
  /\ games = <<>>
  /\ cancelled_at = ""
  /\ results_at_cancel = results
  /\ validated = FALSE
  /\ saved = <<>>
  /\ since_call = "none"
  /\ lock = "free"
  /\ p_pc = "idle"
  /\ p_op = None
  /\ p_todo = <<>>
  /\ p_before = None
  /\ c_pc = "idle"
  /\ c_op = ""
  /\ observed = None
  /\ expected = NoneWritten
  /\ session_open = FALSE
  /\ h_pc = "idle"
  /\ h_result = None
  /\ h_return = None
  /\ runs = 1

RunnerInit(match_sizes, boards, thresholds) ==
  RunnerInitFor(AlgoPairs, match_sizes, boards, thresholds)

\* no constructor call in progress
SetupIdle ==
  /\ s_pc = "idle"
  /\ s_algo1 = <<>>
  /\ s_algo2 = <<>>
  /\ s_iterations = 0
  /\ s_map_dir = "absent"
  /\ s_map_file = ""
  /\ s_available_maps = [set |-> FALSE, files |-> {}]
  /\ s_board = "none"
  /\ s_agents = <<>>
  /\ s_error = [type |-> "", on |-> <<>>]

\* no map being loaded
LoadIdle ==
  /\ l_pc = "idle"
  /\ l_r = 0
  /\ l_line = <<>>
  /\ l_board = <<>>

\* no table under validation
ValidIdle ==
  /\ v_pc = "idle"
  /\ v_results = <<>>
  /\ v_games_per_match = 0
  /\ v_warnings = {}
  /\ v_saved = <<>>

\* save_results is not being called
SaveIdle ==
  /\ f_pc = "idle"
  /\ f_platform = ""
  /\ f_results = <<>>
  /\ f_store = [exists |-> FALSE, rows |-> <<>>]
  /\ f_store0 = [exists |-> FALSE, rows |-> <<>>]
  /\ f_new = <<>>
  /\ f_combined = <<>>
  /\ f_printed = <<>>
  /\ f_failed_at = ""

\* no game of the stub agent has been played
DetIdle == d_played = <<>>

\* no snapshot of the store has been taken
SnapIdle ==
  /\ n_snap = [taken |-> FALSE, shared |-> FALSE, entries |-> EmptyMap]
  /\ n_op = ""

ExtraIdle == SaveIdle /\ DetIdle /\ SnapIdle

InitWith(match_sizes, boards, thresholds) ==
  /\ RunnerInit(match_sizes, boards, thresholds)
  /\ SetupIdle
  /\ LoadIdle
  /\ ValidIdle
  /\ ExtraIdle

\* whole tournaments on the small boards, with the threshold at which the
\* hybrid agent switches at one empty cell
Init == InitWith(GamesPerMatch, InitialBoards(MaxEmpty), {1})

\* one-game matches on the larger boards
GameInit == InitWith({1}, InitialBoards(MaxGameEmpty), Thresholds)

(* --------------------- results bookkeeping (play_game) ----------------- *)
\* games_played incremented for the X identity only (mutation of the code)
AddGameOnlyX(res, x_agent, o_agent, xp, op) ==
  [res EXCEPT ![x_agent].avg_pieces = @ + xp,
              ![x_agent].games_played = @ + 1,
              ![o_agent].avg_pieces = @ + op]

\* play_game lines 214-217: piece counts and games_played of both identities
AddGame(res, x_agent, o_agent, xp, op) ==
  [res EXCEPT ![x_agent].avg_pieces = @ + xp,
              ![o_agent].avg_pieces = @ + op,
              ![x_agent].games_played = @ + 1,
              ![o_agent].games_played = @ + 1]

\* the win credited to the identity of the losing colour (mutation of the code)
AddOutcomeSwapped(res, x_agent, o_agent, winner) ==
  IF winner = 1
    THEN [res EXCEPT ![o_agent].wins = @ + 1, ![x_agent].losses = @ + 1]
    ELSE IF winner = -1
      THEN [res EXCEPT ![x_agent].wins = @ + 1, ![o_agent].losses = @ + 1]
      ELSE [res EXCEPT ![x_agent].draws = @ + 1, ![o_agent].draws = @ + 1]

\* a draw counted for the X identity only (mutation of the code)
AddOutcomeDrawOnlyX(res, x_agent, o_agent, winner) ==
  IF winner = 1
    THEN [res EXCEPT ![x_agent].wins = @ + 1, ![o_agent].losses = @ + 1]
    ELSE IF winner = -1
      THEN [res EXCEPT ![o_agent].wins = @ + 1, ![x_agent].losses = @ + 1]
      ELSE [res EXCEPT ![x_agent].draws = @ + 1]

\* play_game lines 219-236: win/loss/draw attribution by colour
AddOutcome(res, x_agent, o_agent, winner) ==
  IF winner = 1
    THEN [res EXCEPT ![x_agent].wins = @ + 1, ![o_agent].losses = @ + 1]
    ELSE IF winner = -1
      THEN [res EXCEPT ![o_agent].wins = @ + 1, ![x_agent].losses = @ + 1]
      ELSE [res EXCEPT ![x_agent].draws = @ + 1, ![o_agent].draws = @ + 1]

MatchResult(winner, x_agent, o_agent, xp, op, mc) ==
  [winner |-> winner,
   winner_name |-> IF winner = 1 THEN x_agent ELSE IF winner = -1 THEN o_agent ELSE "None",
   loser_name |-> IF winner = 1 THEN o_agent ELSE IF winner = -1 THEN x_agent ELSE "None",
   x_pieces |-> xp, o_pieces |-> op, move_count |-> mc]

\* save_results lines 333-346: one row per identity with at least one game
ResultRows(res, a1, a2) ==
  LET Row(name) == [Agent |-> name,
                    Opponent |-> IF name = a1 THEN a2 ELSE a1,
                    Wins |-> res[name].wins,
                    Losses |-> res[name].losses,
                    Draws |-> res[name].draws,
                    TotalGames |-> res[name].games_played]
      Rows(name) == IF res[name].games_played > 0 THEN <<Row(name)>> ELSE <<>>
  IN Rows(a1) \o Rows(a2)

(* ------------------------ run_tournament ------------------------------- *)
\* a cancelled tournament that goes on to the next phase (mutation of the code)
ReturnsEarlyNever(run) == FALSE

\* lines 268 and 281: if not self.running: return
ReturnsEarly(run) == ~run

\* a run that keeps the table of the run before it (mutation of the code)
ResetResultsKeeps(res, a1, a2) == res

\* lines 255-256: self.results is replaced by a table of zeros
ResetResults(res, a1, a2) == NewResults(a1, a2)

\* lines 249-256: clear the store, reset the results table, enter Round 1
RunTournament ==
  /\ pc = "idle"
  /\ move_score_manager' = clear_scores(move_score_manager)
  /\ results' = ResetResults(results, algo1, algo2)
  /\ round' = 1
  /\ game_num' = 0
  /\ recorded_this_turn' = {}
  /\ pc' = "round_loop"
  /\ UNCHANGED <<beside_runner, cfg, flags, gamevars, result, hybridhist, calls_since_enable,
                 entries_before_enable, games, validated, saved>>

\* lines 259-264 / 272-277 and play_game lines 121-150: the next game of the
\* round starts with a fresh state and the colour assignment of the round
StartGame ==
  /\ pc = "round_loop"
  /\ game_num < games_per_match
  /\ running
  /\ state' = AtaxxState(initial_board, first_player)
  /\ LET forward == (round = 1)
         xp == XPlayer(algo1, algo2, forward)
         op == OPlayer(algo1, algo2, forward)
     IN /\ current_x_player' = xp
        /\ current_o_player' = op
        /\ games' = Append(games, [round |-> round, x |-> xp, o |-> op,
                                   first |-> state'.current_player])
  /\ move_score_manager' = clear_scores(clear_scores(move_score_manager))
  /\ move_count' = 0
  /\ x_pieces' = 0
  /\ o_pieces' = 0
  /\ recorded_this_turn' = {}
  /\ since_call' = "none"
  /\ pc' = "while"
  /\ UNCHANGED <<beside_runner, cfg, flags, results, round, game_num, current_agent_name,
                 move, raised, result, hybridhist, calls_since_enable,
                 entries_before_enable, validated, saved>>

\* the for loop is exhausted, or running is false at its head (lines 260, 273)
RoundLoopExit ==
  /\ pc = "round_loop"
  /\ (game_num >= games_per_match \/ ~running)
  /\ pc' = "after_round"
  /\ UNCHANGED <<beside_runner, cfg, flags, results, move_score_manager, gamevars, tourvars,
                 result, hybridhist, scorehist>>

\* lines 265-266 / 278-279: break on cancellation or on an abandoned game
GameReturned ==
  /\ pc = "game_returned"
  /\ IF ~running \/ result = None
       THEN pc' = "after_round" /\ game_num' = game_num
       ELSE pc' = "round_loop" /\ game_num' = game_num + 1
  /\ result' = None     \* the local is not read again before the next game assigns it
  /\ UNCHANGED <<beside_runner, cfg, flags, results, move_score_manager, gamevars, round,
                 games, validated, saved, hybridhist, scorehist>>

\* lines 268-269 / 281-282: a cancelled tournament returns at once
CancelledReturn ==
  /\ pc = "after_round"
  /\ ReturnsEarly(running)
  /\ pc' = "done"
  /\ UNCHANGED <<beside_runner, cfg, flags, results, move_score_manager, gamevars, tourvars,
                 result, hybridhist, scorehist>>

\* line 271: Round 2 follows Round 1
StartRound2 ==
  /\ pc = "after_round"
  /\ ~ReturnsEarly(running)
  /\ round = 1
  /\ round' = 2
  /\ game_num' = 0
  /\ pc' = "round_loop"
  /\ UNCHANGED <<beside_runner, cfg, flags, results, move_score_manager, gamevars, games,
                 validated, saved, result, hybridhist, scorehist>>

\* lines 284-302: validation, summary, clear the store, persistence
Report ==
  /\ pc = "after_round"
  /\ ~ReturnsEarly(running)
  /\ round = 2
  /\ validated' = TRUE
  /\ move_score_manager' = clear_scores(move_score_manager)
  /\ recorded_this_turn' = {}
  /\ saved' = Append(saved, ResultRows(results, algo1, algo2))
  /\ pc' = "done"
  /\ UNCHANGED <<beside_runner, cfg, flags, results, gamevars, round, game_num, games,
                 result, hybridhist, calls_since_enable, entries_before_enable>>

(* ------------------------- play_game: the loop ------------------------- *)
\* a pass that leaves the same side to move (mutation of the code)
FlipKeepsPlayer(s) == s

\* lines 164, 204: state.current_player = -state.current_player
Flip(s) == [s EXCEPT !.current_player = -s.current_player]

\* play_game returns: its locals are gone until the next call rebinds them
FrameReleased ==
  /\ state' = AtaxxState(initial_board, first_player)
  /\ current_x_player' = algo1
  /\ current_o_player' = algo2
  /\ move_count' = 0
  /\ x_pieces' = 0
  /\ o_pieces' = 0
  /\ current_agent_name' = ""
  /\ move' = None
  /\ since_call' = "none"
  /\ UNCHANGED raised

\* a loop that goes on after cancellation (mutation of the code)
LoopConditionIgnoresRunning(s, run) == ~is_game_over(s)

\* line 152: while not state.is_game_over() and self.running
LoopCondition(s, run) == ~is_game_over(s) /\ run

\* a cancellation during the agent call that goes unnoticed (mutation of the code)
CancelledAfterCallNever(run) == FALSE

\* line 180: if not self.running
CancelledAfterCall(run) == ~run

\* a loop that never looks at the paused flag (mutation of the code)
PauseObservedNever(p) == FALSE

\* line 156: if self.paused
PauseObserved(p) == p

\* line 152: the while condition fails
LoopExit ==
  /\ pc = "while"
  /\ ~LoopCondition(state, running)
  /\ pc' = "game_end"
  /\ UNCHANGED <<beside_runner, cfg, flags, results, move_score_manager, gamevars, tourvars,
                 result, hybridhist, scorehist>>

\* an awaited sleep is entered (lines 157, 201)
Suspended(sc) == IF sc = "no_yield" THEN "yielded" ELSE sc

\* lines 156-157: paused, suspend for 0.1 s
PausedWait ==
  /\ pc = "while"
  /\ LoopCondition(state, running)
  /\ PauseObserved(paused)
  /\ since_call' = Suspended(since_call)
  /\ pc' = "paused_sleep"
  /\ UNCHANGED <<beside_runner, cfg, flags, results, move_score_manager, state,
                 current_x_player, current_o_player, move_count, x_pieces,
                 o_pieces, current_agent_name, move, raised, tourvars,
                 result, hybridhist, scorehist>>

\* line 158: continue after the paused sleep
PausedWake ==
  /\ pc = "paused_sleep"
  /\ pc' = "while"
  /\ UNCHANGED <<beside_runner, cfg, flags, results, move_score_manager, gamevars, tourvars,
                 result, hybridhist, scorehist>>

\* an empty list of legal moves that goes unnoticed (mutation of the code)
MustPassNever(s) == FALSE

\* lines 160-162: legal_moves = state.get_legal_moves(); if not legal_moves
MustPass(s) == ~has_legal_moves(s)

\* lines 160-165: no legal move, the side to move passes
NoLegalMovesPass ==
  /\ pc = "while"
  /\ LoopCondition(state, running) /\ ~PauseObserved(paused)
  /\ MustPass(state)
  /\ state' = Flip(state)
  /\ pc' = "while"
  /\ UNCHANGED <<beside_runner, cfg, flags, results, move_score_manager, current_x_player,
                 current_o_player, move_count, x_pieces, o_pieces,
                 current_agent_name, move, raised, since_call, tourvars,
                 result, hybridhist, scorehist>>

\* lines 167-172: the agent of the side to move
ResolveAgent ==
  /\ pc = "while"
  /\ LoopCondition(state, running) /\ ~PauseObserved(paused)
  /\ ~MustPass(state)
  /\ current_agent_name' = IF state.current_player = 1 THEN current_x_player
                                                       ELSE current_o_player
  /\ pc' = "enable"
  /\ UNCHANGED <<beside_runner, cfg, flags, results, move_score_manager, state,
                 current_x_player, current_o_player, move_count, x_pieces,
                 o_pieces, move, raised, since_call, tourvars, result,
                 hybridhist, scorehist>>

\* line 174
EnableCollection ==
  /\ pc = "enable"
  /\ move_score_manager' = enable_score_collection(move_score_manager, current_agent_name)
  /\ calls_since_enable' = 0
  /\ entries_before_enable' = (get_move_scores(move_score_manager) # EmptyMap)
  /\ recorded_this_turn' = {}
  /\ pc' = "get_move"
  /\ UNCHANGED <<beside_runner, cfg, flags, results, gamevars, tourvars, result, hybridhist>>

\* line 176: agent.get_move(state) is entered; ABMCTSDomainAgent.get_move
\* lines 12-20 picks its wrapped strategy and writes the label
GetMoveCall ==
  /\ pc = "get_move"
  /\ calls_since_enable' = calls_since_enable + 1
  /\ IF IsHybrid(current_agent_name)
       THEN LET d == Delegate(get_empty_cells(state), transition_threshold)
            IN /\ invoked' = {d}
               /\ move_score_manager' = HybridLabelWrite(move_score_manager, d)
       ELSE UNCHANGED <<invoked, move_score_manager>>
  /\ since_call' = "no_yield"
  /\ pc' = "in_get_move"
  /\ UNCHANGED <<beside_runner, cfg, flags, results, state, current_x_player,
                 current_o_player, move_count, x_pieces, o_pieces,
                 current_agent_name, move, raised, tourvars, result,
                 entries_before_enable, recorded_this_turn>>

\* the thinking agent publishes one score
AgentStoreScore ==
  /\ pc = "in_get_move"
  /\ \E m \in ScoredMoves, sc \in Scores :
       /\ move_score_manager' = store_move_score(move_score_manager, m, sc)
       /\ recorded_this_turn' = IF is_enabled(move_score_manager)
                                  THEN recorded_this_turn \cup {m}
                                  ELSE recorded_this_turn
  /\ UNCHANGED <<beside_runner, cfg, flags, results, gamevars, tourvars, result, pc,
                 hybridhist, calls_since_enable, entries_before_enable>>

\* the thinking agent publishes a batch of scores
AgentStoreScores ==
  /\ pc = "in_get_move"
  /\ \E D \in (SUBSET ScoredMoves) \ {{}} : \E ms \in [D -> Scores] :
       /\ move_score_manager' = store_move_scores(move_score_manager, ms)
       /\ recorded_this_turn' = IF is_enabled(move_score_manager)
                                  THEN recorded_this_turn \cup D
                                  ELSE recorded_this_turn
  /\ UNCHANGED <<beside_runner, cfg, flags, results, gamevars, tourvars, result, pc,
                 hybridhist, calls_since_enable, entries_before_enable>>

\* moves the agent may return: jumps are offered while move_count < MaxMoves
OfferedMoves == { m \in Moves : is_clone(m) \/ move_count < MaxMoves }

\* line 176: get_move returns a move or None
GetMoveReturn ==
  /\ pc = "in_get_move"
  /\ move' \in OfferedMoves \cup {None}
  /\ pc' = "finally"
  /\ UNCHANGED <<beside_runner, cfg, flags, results, move_score_manager, state,
                 current_x_player, current_o_player, move_count, x_pieces,
                 o_pieces, current_agent_name, raised, since_call, tourvars,
                 result, hybridhist, scorehist>>

\* line 176: get_move raises
GetMoveRaise ==
  /\ pc = "in_get_move"
  /\ raised' = TRUE
  /\ pc' = "finally"
  /\ UNCHANGED <<beside_runner, cfg, flags, results, move_score_manager, state,
                 current_x_player, current_o_player, move_count, x_pieces,
                 o_pieces, current_agent_name, move, since_call, tourvars,
                 result, hybridhist, scorehist>>

\* lines 177-178: finally: disable; an exception then leaves play_game
DisableCollection ==
  /\ pc = "finally"
  /\ move_score_manager' = disable_score_collection(move_score_manager)
  /\ invoked' = {}
  /\ calls_since_enable' = 0
  /\ entries_before_enable' = FALSE
  /\ pc' = IF raised THEN "raised" ELSE "after_call"
  /\ UNCHANGED <<beside_runner, cfg, flags, results, gamevars, tourvars, result,
                 recorded_this_turn>>

\* lines 180-181: cancelled while the agent was computing
AbandonAfterCall ==
  /\ pc = "after_call"
  /\ CancelledAfterCall(running)
  /\ result' = None
  /\ FrameReleased
  /\ pc' = "game_returned"
  /\ UNCHANGED <<beside_runner, cfg, flags, results, move_score_manager, tourvars,
                 hybridhist, scorehist>>

\* lines 183-201: apply the move, count it, read the piece counts
ApplyMove ==
  /\ pc = "after_call"
  /\ ~CancelledAfterCall(running)
  /\ move # None
  /\ \E s2 \in make_move(state, move) :
       /\ state' = s2
       /\ x_pieces' = s2.x
       /\ o_pieces' = s2.o
  /\ move_count' = move_count + 1
  /\ move' = None       \* the local is not read again before line 176 reassigns it
  /\ since_call' = IF delay > 0 THEN Suspended(since_call) ELSE since_call
  /\ pc' = IF delay > 0 THEN "delay_sleep" ELSE "while"
  /\ UNCHANGED <<beside_runner, cfg, flags, results, move_score_manager, current_x_player,
                 current_o_player, current_agent_name, raised, tourvars,
                 result, hybridhist, scorehist>>

\* lines 202-204: no move returned, treated as a pass
AgentPass ==
  /\ pc = "after_call"
  /\ ~CancelledAfterCall(running)
  /\ move = None
  /\ state' = Flip(state)
  /\ pc' = "while"
  /\ UNCHANGED <<beside_runner, cfg, flags, results, move_score_manager, current_x_player,
                 current_o_player, move_count, x_pieces, o_pieces,
                 current_agent_name, move, raised, since_call, tourvars,
                 result, hybridhist, scorehist>>

\* line 201: the inter-move delay elapses
DelayWake ==
  /\ pc = "delay_sleep"
  /\ pc' = "while"
  /\ UNCHANGED <<beside_runner, cfg, flags, results, move_score_manager, gamevars, tourvars,
                 result, hybridhist, scorehist>>

\* lines 206-207: the loop was left because running is false
AbandonAtEnd ==
  /\ pc = "game_end"
  /\ ~running
  /\ result' = None
  /\ FrameReleased
  /\ pc' = "game_returned"
  /\ UNCHANGED <<beside_runner, cfg, flags, results, move_score_manager, tourvars,
                 hybridhist, scorehist>>

\* lines 209-217
CountGame ==
  /\ pc = "game_end"
  /\ running
  /\ results' = AddGame(results, current_x_player, current_o_player,
                        x_pieces, o_pieces)
  /\ pc' = "attribute"
  /\ UNCHANGED <<beside_runner, cfg, flags, move_score_manager, gamevars, tourvars, result,
                 hybridhist, scorehist>>

\* lines 219-247
AttributeOutcome ==
  /\ pc = "attribute"
  /\ results' = AddOutcome(results, current_x_player, current_o_player,
                           get_winner(state))
  /\ move_score_manager' = clear_scores(move_score_manager)
  /\ recorded_this_turn' = {}
  /\ result' = <<MatchResult(get_winner(state), current_x_player,
                             current_o_player, x_pieces, o_pieces, move_count)>>
  /\ FrameReleased
  /\ pc' = "game_returned"
  /\ UNCHANGED <<beside_runner, cfg, flags, tourvars, hybridhist, calls_since_enable,
                 entries_before_enable>>

(* ------------------------ the external driver -------------------------- *)
\* where the driver can run: before the run, at the two awaited sleeps, and
\* while an agent call is pending
DriverPoints == {"idle", "paused_sleep", "delay_sleep", "in_get_move"}

\* running := False
Cancel ==
  /\ pc \in DriverPoints
  /\ running
  /\ running' = FALSE
  /\ cancelled_at' = pc
  /\ results_at_cancel' = results
  /\ UNCHANGED <<beside_runner, cfg, paused, results, move_score_manager, pc, gamevars,
                 tourvars, result, hybridhist, scorehist>>

\* paused := not paused
TogglePause ==
  /\ pc \in DriverPoints
  /\ running
  /\ paused' = ~paused
  /\ UNCHANGED <<beside_runner, cfg, running, cancelled_at, results_at_cancel, results,
                 move_score_manager, pc, gamevars, tourvars, result,
                 hybridhist, scorehist>>

Runner ==
  \/ RunTournament \/ StartGame \/ RoundLoopExit \/ GameReturned
  \/ CancelledReturn \/ StartRound2 \/ Report
  \/ LoopExit \/ PausedWait \/ PausedWake \/ NoLegalMovesPass \/ ResolveAgent
  \/ EnableCollection \/ GetMoveCall \/ GetMoveReturn \/ GetMoveRaise
  \/ DisableCollection \/ AbandonAfterCall \/ ApplyMove \/ AgentPass
  \/ DelayWake \/ AbandonAtEnd \/ CountGame \/ AttributeOutcome

Next ==
  \/ Runner
  \/ AgentStoreScore \/ AgentStoreScores
  \/ Cancel \/ TogglePause

Spec == Init /\ [][Next]_vars

GameSpec == GameInit /\ [][Next]_vars

\* every step of the runner is eventually taken and a pending agent call ends
FairSpec == Spec /\ WF_vars(Runner)

(* ============ move_scores.py under a producer and a consumer =========== *)
\* a lock that is granted while another thread holds it (mutation of the code)
CanAcquireAlways(l) == TRUE

\* with self._lock: the lock is granted only when no thread holds it
CanAcquire(l) == l = "free"

\* a with block that leaves the lock held (mutation of the code)
ReleasedNever(l) == l

\* leaving the with block releases the lock
Released(l) == "free"

\* one statement of a method body
Stmt(k, m, v) == [k |-> k, m |-> m, v |-> v]

\* lines 16-18
enable_body(agent_name) ==
  << Stmt("set_enabled", None, TRUE), Stmt("clear", None, 0),
     Stmt("set_name", None, agent_name) >>

\* a disable that also drops the entries (mutation of the code)
disable_body_clears ==
  << Stmt("set_enabled", None, FALSE), Stmt("clear", None, 0),
     Stmt("set_name", None, "") >>

\* lines 22-23
disable_body ==
  << Stmt("set_enabled", None, FALSE), Stmt("set_name", None, "") >>

\* lines 31-32: if self._enabled: self._scores[move] = score
store_move_score_body(msm, mv, score) ==
  IF msm.enabled THEN << Stmt("put", mv, score) >> ELSE << >>

\* lines 36-37: if self._enabled: self._scores.update(move_scores), one entry
\* after the other in the order the batch is iterated
store_move_scores_body(msm, move_scores, order) ==
  IF msm.enabled
    THEN [i \in 1..Len(order) |-> Stmt("put", order[i], move_scores[order[i]])]
    ELSE << >>

\* line 49
clear_scores_body == << Stmt("clear", None, 0) >>

\* the effect of one statement on the store
Exec(msm, st) ==
  IF st.k = "set_enabled" THEN [msm EXCEPT !.enabled = st.v]
  ELSE IF st.k = "set_name" THEN [msm EXCEPT !.agent_name = st.v]
  ELSE IF st.k = "clear" THEN [msm EXCEPT !.scores = EmptyMap]
  ELSE [msm EXCEPT !.scores = Update(msm.scores, [m \in {st.m} |-> st.v])]

\* the orders in which the keys S of a dict can be iterated
Orders(S) ==
  { f \in [1..Cardinality(S) -> S] : \A i, j \in 1..Cardinality(S) : f[i] = f[j] => i = j }

\* the score met last kept for a destination (mutation of the code)
get_destination_scores_last(msm, order) ==
  LET RECURSIVE F(_, _)
      F(i, d) ==
        IF i > Len(order) THEN d
        ELSE LET m == order[i]
                 dest_pos == <<m[3], m[4]>>
                 score == msm.scores[m]
             IN F(i + 1, Update(d, [p \in {dest_pos} |-> score]))
  IN F(1, EmptyMap)

\* the smaller score kept for a destination (mutation of the code)
get_destination_scores_min(msm, order) ==
  LET RECURSIVE F(_, _)
      F(i, d) ==
        IF i > Len(order) THEN d
        ELSE LET m == order[i]
                 dest_pos == <<m[3], m[4]>>
                 score == msm.scores[m]
             IN F(i + 1, IF dest_pos \notin DOMAIN d \/ score < d[dest_pos]
                           THEN Update(d, [p \in {dest_pos} |-> score])
                           ELSE d)
  IN F(1, EmptyMap)

\* lines 53-58: one pass over the entries, in iteration order `order`
get_destination_scores(msm, order) ==
  LET RECURSIVE F(_, _)
      F(i, d) ==
        IF i > Len(order) THEN d
        ELSE LET m == order[i]
                 dest_pos == <<m[3], m[4]>>
                 score == msm.scores[m]
             IN F(i + 1, IF dest_pos \notin DOMAIN d \/ score > d[dest_pos]
                           THEN Update(d, [p \in {dest_pos} |-> score])
                           ELSE d)
  IN F(1, EmptyMap)

\* the calls the producer thread makes
Batches ==
  UNION { [D -> ChanScores] :
            D \in { S \in SUBSET ChanMoves : Cardinality(S) \in 1..MaxBatch } }

EnableCalls == { [op |-> "enable", arg |-> n] : n \in ChanNames }
PlainCalls == { [op |-> "disable", arg |-> 0], [op |-> "clear", arg |-> 0] }
RecordCalls ==
  { [op |-> "record", arg |-> <<m, sc>>] : m \in ChanMoves, sc \in ChanScores }
RecordManyCalls == { [op |-> "record_many", arg |-> b] : b \in Batches }

\* the calls the consumer thread makes
ConsumerCalls == {"read_all", "best_destination", "is_enabled", "get_current_agent_name"}

\* what a whole call of the producer does to the store
ApplyCall(call, msm) ==
  IF call.op = "enable" THEN enable_score_collection(msm, call.arg)
  ELSE IF call.op = "disable" THEN disable_score_collection(msm)
  ELSE IF call.op = "clear" THEN clear_scores(msm)
  ELSE IF call.op = "record" THEN store_move_score(msm, call.arg[1], call.arg[2])
  ELSE store_move_scores(msm, call.arg)

\* history: the scores the calls made in an open session have written
Written(exp, open, call) ==
  IF call.op \in {"enable", "clear"} THEN NoneWritten
  ELSE IF call.op = "record" /\ open THEN [exp EXCEPT ![call.arg[1]] = call.arg[2]]
  ELSE IF call.op = "record_many" /\ open
    THEN [m \in ChanMoves |-> IF m \in DOMAIN call.arg THEN call.arg[m] ELSE exp[m]]
  ELSE exp

runner == <<cfg, flags, results, pc, gamevars, tourvars, result, hybridhist,
            scorehist>>
\* the variables the two threads of the channel do not touch
beside_chan == <<runner, hyb, setup, load, valid, extra, runs>>
consumer == <<c_pc, c_op, observed>>

\* the producer thread enters a method of the channel
ProducerCall ==
  /\ p_pc = "idle"
  /\ \/ p_op' \in EnableCalls
     \/ p_op' \in PlainCalls
     \/ p_op' \in RecordCalls
     \/ p_op' \in RecordManyCalls
  /\ p_pc' = "acquire"
  /\ UNCHANGED <<beside_chan, consumer, move_score_manager, lock, p_todo, p_before,
                 expected, session_open>>

\* with self._lock (producer): the lock is taken and the body is entered
ProducerAcquire ==
  /\ p_pc = "acquire"
  /\ CanAcquire(lock)
  /\ lock' = "producer"
  /\ p_before' = <<move_score_manager>>
  /\ \/ /\ p_op.op = "enable" /\ p_todo' = enable_body(p_op.arg)
     \/ /\ p_op.op = "disable" /\ p_todo' = disable_body
     \/ /\ p_op.op = "clear" /\ p_todo' = clear_scores_body
     \/ /\ p_op.op = "record"
        /\ p_todo' = store_move_score_body(move_score_manager, p_op.arg[1], p_op.arg[2])
     \/ /\ p_op.op = "record_many"
        /\ \E order \in Orders(DOMAIN p_op.arg) :
             p_todo' = store_move_scores_body(move_score_manager, p_op.arg, order)
  /\ p_pc' = "body"
  /\ UNCHANGED <<beside_chan, consumer, move_score_manager, p_op, expected,
                 session_open>>

\* one statement of the body runs
ProducerStatement ==
  /\ p_pc = "body"
  /\ p_todo # << >>
  /\ move_score_manager' = Exec(move_score_manager, Head(p_todo))
  /\ p_todo' = Tail(p_todo)
  /\ UNCHANGED <<beside_chan, consumer, lock, p_pc, p_op, p_before, expected,
                 session_open>>

\* the body is done: the with block is left and the method returns
ProducerRelease ==
  /\ p_pc = "body"
  /\ p_todo = << >>
  /\ lock' = Released(lock)
  /\ expected' = Written(expected, session_open, p_op)
  /\ session_open' = IF p_op.op = "enable" THEN TRUE
                     ELSE IF p_op.op = "disable" THEN FALSE ELSE session_open
  /\ p_pc' = "idle"
  /\ p_op' = None
  /\ p_before' = None
  /\ UNCHANGED <<beside_chan, consumer, move_score_manager, p_todo>>

\* the consumer thread calls a reading method: it takes the lock and computes
\* the value it will return
ConsumerRead ==
  /\ c_pc = "idle"
  /\ CanAcquire(lock)
  /\ lock' = "consumer"
  /\ \E call \in ConsumerCalls :
       /\ c_op' = call
       /\ \/ /\ call = "read_all"
             /\ observed' = <<get_move_scores(move_score_manager)>>
          \/ /\ call = "best_destination"
             /\ \E order \in Orders(DOMAIN move_score_manager.scores) :
                  observed' = <<get_destination_scores(move_score_manager, order)>>
          \/ /\ call = "is_enabled"
             /\ observed' = <<is_enabled(move_score_manager)>>
          \/ /\ call = "get_current_agent_name"
             /\ observed' = <<get_current_agent_name(move_score_manager)>>
  /\ c_pc' = "holding"
  /\ UNCHANGED <<beside_chan, move_score_manager, p_pc, p_op, p_todo, p_before,
                 expected, session_open>>

\* the consumer leaves the with block and returns the value
ConsumerReturn ==
  /\ c_pc = "holding"
  /\ lock' = Released(lock)
  /\ c_pc' = "idle"
  /\ c_op' = ""
  /\ observed' = None
  /\ UNCHANGED <<beside_chan, move_score_manager, p_pc, p_op, p_todo, p_before,
                 expected, session_open>>

ChannelNext ==
  \/ ProducerCall \/ ProducerAcquire \/ ProducerStatement \/ ProducerRelease
  \/ ConsumerRead \/ ConsumerReturn

\* the channel alone: the runner is constructed and never started
ChannelInit ==
  /\ InitWith({1}, {[x |-> 1, o |-> 1, empty |-> 0]}, {1})
  /\ first_player_arg = "B"
  /\ delay = 0

ChannelSpec == ChannelInit /\ [][ChannelNext]_vars

(* ========== ab_mcts_domain_agent.py called directly by one caller ====== *)
\* the variables a direct caller of the hybrid agent does not touch
beside_hyb == <<chan, setup, load, valid, extra, runs, cfg, flags, results, pc,
                tourvars, result, scorehist, current_x_player,
                current_o_player, move_count, x_pieces, o_pieces,
                current_agent_name, move, raised, since_call>>

\* the caller opens a collection session
HEnable ==
  /\ h_pc = "idle"
  /\ \E n \in ChanNames :
       move_score_manager' = enable_score_collection(move_score_manager, n)
  /\ UNCHANGED <<beside_hyb, hyb, state, invoked>>

\* the caller closes the session
HDisable ==
  /\ h_pc = "idle"
  /\ move_score_manager' = disable_score_collection(move_score_manager)
  /\ UNCHANGED <<beside_hyb, hyb, state, invoked>>

\* the caller clears the store
HClear ==
  /\ h_pc = "idle"
  /\ move_score_manager' = clear_scores(move_score_manager)
  /\ UNCHANGED <<beside_hyb, hyb, state, invoked>>

\* get_move lines 12-19: the empty cells of the state passed in are counted,
\* the label is written and the wrapped strategy is called
HGetMoveCall ==
  /\ h_pc = "idle"
  /\ \E b \in InitialBoards(MaxGameEmpty) : state' = AtaxxState(b, first_player)
  /\ LET d == Delegate(get_empty_cells(state'), transition_threshold)
     IN /\ invoked' = {d}
        /\ move_score_manager' = HybridLabelWrite(move_score_manager, d)
  /\ h_pc' = "delegated"
  /\ UNCHANGED <<beside_hyb, h_result, h_return>>

\* the wrapped strategy publishes a score while it searches
HStrategyStore ==
  /\ h_pc = "delegated"
  /\ \E m \in ScoredMoves, sc \in Scores :
       move_score_manager' = store_move_score(move_score_manager, m, sc)
  /\ UNCHANGED <<beside_hyb, hyb, state, invoked>>

\* the caller or the wrapped strategy publishes a batch of scores
HRecordMany ==
  /\ h_pc \in {"idle", "delegated"}
  /\ \E D \in (SUBSET ScoredMoves) \ {{}} : \E ms \in [D -> Scores] :
       move_score_manager' = store_move_scores(move_score_manager, ms)
  /\ UNCHANGED <<beside_hyb, hyb, state, invoked>>

\* the wrapped strategy returns a move or None
HStrategyReturn ==
  /\ h_pc = "delegated"
  /\ h_result' \in Moves \cup {None}
  /\ h_pc' = "strategy_returned"
  /\ UNCHANGED <<beside_hyb, h_return, state, invoked, move_score_manager>>

\* get_move lines 16 / 20: the value is returned to the caller
HGetMoveReturn ==
  /\ h_pc = "strategy_returned"
  /\ h_return' = HybridReturn(h_result)
  /\ h_pc' = "returned"
  /\ UNCHANGED <<beside_hyb, h_result, state, invoked, move_score_manager>>

\* the caller has used the value
HDone ==
  /\ h_pc = "returned"
  /\ h_pc' = "idle"
  /\ h_result' = None
  /\ h_return' = None
  /\ invoked' = {}
  /\ UNCHANGED <<beside_hyb, state, move_score_manager>>

HybridNext ==
  \/ HEnable \/ HDisable \/ HClear \/ HGetMoveCall \/ HStrategyStore
  \/ HRecordMany \/ HStrategyReturn \/ HGetMoveReturn \/ HDone

\* the hybrid agent and the store alone: the runner is constructed and never
\* started
HybridInit ==
  /\ InitWith({1}, {[x |-> 1, o |-> 1, empty |-> 0]}, Thresholds)
  /\ first_player_arg = "B"
  /\ delay = 0

HybridSpec == HybridInit /\ [][HybridNext]_vars

(* ============ tournament_runner.py: constructing the runner ============ *)
\* an identity name is the sequence of its tokens: "AB+MCTS_Domain_600" is
\* <<"AB", "+", "MCTS", "_", "Domain", "_", "600">>
Names ==
  { <<"Minimax">>, <<"Minimax", "+", "AB">>, <<"MCTS">>,
    <<"AB", "+", "MCTS", "_", "Domain", "_", "600">>,
    <<"MCTS", "_", "Domain", "_", "600">>,
    <<"MCTS", "_", "Domain", "_", "50">>,
    <<"AB", "+", "MCTS", "_", "Domain">>,
    <<"MCTS", "_", "Domain">>,
    <<"Random">>, <<"mcts">> }

\* the tokens int() accepts, and their values
NumberTokens == {"600", "50"}
IntOf(tok) == IF tok = "600" THEN 600 ELSE 50

\* --iterations
IterationBudgets == {300}

\* the directory "map" when it exists, the names ending in ".txt", and the
\* files open() and readlines() succeed on
DirFiles == {"a.txt", "b.txt", "notes.md"}
TxtNames == {"a.txt", "b.txt", "c.txt"}
ReadableFiles == {"a.txt", "notes.md"}
MapFileArgs == {"", "a.txt", "b.txt", "c.txt", "notes.md"}

\* pattern in name
Contains(name, pattern) ==
  \E i \in 1..(Len(name) - Len(pattern) + 1) :
    SubSeq(name, i, i + Len(pattern) - 1) = pattern

Marker == <<"MCTS", "_", "Domain">>
ABMarker == <<"AB", "+", "MCTS", "_", "Domain">>

\* '_' in algo_name
HasUnderscore(name) == \E i \in 1..Len(name) : name[i] = "_"

\* algo_name.split('_')[-1]
LastSegment(name) ==
  LET k == CHOOSE i \in 1..Len(name) :
             name[i] = "_" /\ \A j \in (i + 1)..Len(name) : name[j] # "_"
  IN SubSeq(name, k + 1, Len(name))

\* lines 70 / 78: int(algo_name.split('_')[-1]) if '_' in algo_name else
\* self.iterations; int() raises ValueError on anything but a number
IterCount(name, iterations) ==
  IF HasUnderscore(name)
    THEN LET seg == LastSegment(name)
         IN IF Len(seg) = 1 /\ seg[1] \in NumberTokens
              THEN [ok |-> TRUE, v |-> IntOf(seg[1])]
              ELSE [ok |-> FALSE, v |-> 0]
    ELSE [ok |-> TRUE, v |-> iterations]

\* lines 65-84: the agent built for a name, or ok = FALSE for ValueError
Resolve(name, iterations) ==
  IF name = <<"Minimax">> \/ name = <<"Minimax", "+", "AB">>
    THEN [ok |-> TRUE, kind |-> "MinimaxAgent", iterations |-> 0]
  ELSE IF name = <<"MCTS">>
    THEN [ok |-> TRUE, kind |-> "MCTSAgent", iterations |-> iterations]
  ELSE IF Contains(name, ABMarker)
    THEN LET ic == IterCount(name, iterations)
         IN [ok |-> ic.ok, kind |-> "ABMCTSDomainAgent", iterations |-> ic.v]
  ELSE IF Contains(name, Marker)
    THEN LET ic == IterCount(name, iterations)
         IN [ok |-> ic.ok, kind |-> "MCTSDomainAgent", iterations |-> ic.v]
  ELSE [ok |-> FALSE, kind |-> "", iterations |-> 0]

\* a lookup that never raises (mutation of the code)
RaisesNever(r) == FALSE

\* line 84, and int() at lines 70 / 78: the ValueError leaves setup_game
Raises(r) == ~r.ok

\* self.agents[algo_name] = agent
Register(agents, name, r) ==
  [n \in DOMAIN agents \cup {name} |->
     IF n = name THEN [kind |-> r.kind, iterations |-> r.iterations]
                 ELSE agents[n]]

\* the variables the constructor does not touch
beside_setup == <<runner, move_score_manager, chan, hyb, load, valid, extra, runs>>

\* lines 51-53: available_maps is assigned only when the directory exists
SListMaps ==
  /\ s_pc = "start"
  /\ s_available_maps' =
       IF s_map_dir = "present"
         THEN [set |-> TRUE, files |-> DirFiles \cap TxtNames]
         ELSE s_available_maps
  /\ s_pc' = "choose_board"
  /\ UNCHANGED <<beside_setup, s_algo1, s_algo2, s_iterations, s_map_dir, s_map_file,
                 s_board, s_agents, s_error>>

\* line 55 with a map_file and no available_maps attribute: AttributeError,
\* which main does not catch
SBoardAttributeError ==
  /\ s_pc = "choose_board"
  /\ s_map_file # ""
  /\ ~s_available_maps.set
  /\ s_error' = [type |-> "AttributeError", on |-> <<>>]
  /\ s_pc' = "crashed"
  /\ UNCHANGED <<beside_setup, s_algo1, s_algo2, s_iterations, s_map_dir, s_map_file,
                 s_available_maps, s_board, s_agents>>

\* lines 55-57 and 86-109: a listed file is loaded; an error while reading
\* it is caught and the default board returned
SBoardLoad ==
  /\ s_pc = "choose_board"
  /\ s_map_file # ""
  /\ s_available_maps.set
  /\ s_map_file \in s_available_maps.files
  /\ s_board' = IF s_map_file \in ReadableFiles THEN "loaded" ELSE "default"
  /\ s_pc' = "agent1"
  /\ UNCHANGED <<beside_setup, s_algo1, s_algo2, s_iterations, s_map_dir, s_map_file,
                 s_available_maps, s_agents, s_error>>

\* lines 58-60: no map_file, or one that is not listed
SBoardDefault ==
  /\ s_pc = "choose_board"
  /\ \/ s_map_file = ""
     \/ s_available_maps.set /\ s_map_file \notin s_available_maps.files
  /\ s_board' = "default"
  /\ s_pc' = "agent1"
  /\ UNCHANGED <<beside_setup, s_algo1, s_algo2, s_iterations, s_map_dir, s_map_file,
                 s_available_maps, s_agents, s_error>>

\* the name the loop of line 64 is at
CurrentName == IF s_pc = "agent1" THEN s_algo1 ELSE s_algo2

\* lines 64-82: the agent of the name is built and registered
SAgentRegistered ==
  /\ s_pc \in {"agent1", "agent2"}
  /\ LET r == Resolve(CurrentName, s_iterations)
     IN /\ ~Raises(r)
        /\ s_agents' = Register(s_agents, CurrentName, r)
  /\ s_pc' = IF s_pc = "agent1" THEN "agent2" ELSE "results"
  /\ UNCHANGED <<beside_setup, s_algo1, s_algo2, s_iterations, s_map_dir, s_map_file,
                 s_available_maps, s_board, s_error>>

\* lines 70, 78, 84: ValueError leaves setup_game and __init__
SAgentRaises ==
  /\ s_pc \in {"agent1", "agent2"}
  /\ Raises(Resolve(CurrentName, s_iterations))
  /\ s_error' = [type |-> "ValueError", on |-> CurrentName]
  /\ s_pc' = "failed"
  /\ UNCHANGED <<beside_setup, s_algo1, s_algo2, s_iterations, s_map_dir, s_map_file,
                 s_available_maps, s_board, s_agents>>

\* lines 41-48: the results table is created and the constructor returns
SCreateResults ==
  /\ s_pc = "results"
  /\ s_pc' = "constructed"
  /\ UNCHANGED <<beside_setup, s_algo1, s_algo2, s_iterations, s_map_dir, s_map_file,
                 s_available_maps, s_board, s_agents, s_error>>

\* main line 430: await runner.run_tournament()
SMainRun ==
  /\ s_pc = "constructed"
  /\ s_pc' = "run_tournament"
  /\ UNCHANGED <<beside_setup, s_algo1, s_algo2, s_iterations, s_map_dir, s_map_file,
                 s_available_maps, s_board, s_agents, s_error>>

\* main lines 431-433: except ValueError: exit(1)
SMainExit ==
  /\ s_pc = "failed"
  /\ s_error.type = "ValueError"
  /\ s_pc' = "exit1"
  /\ UNCHANGED <<beside_setup, s_algo1, s_algo2, s_iterations, s_map_dir, s_map_file,
                 s_available_maps, s_board, s_agents, s_error>>

SetupNext ==
  \/ SListMaps \/ SBoardAttributeError \/ SBoardLoad \/ SBoardDefault
  \/ SAgentRegistered \/ SAgentRaises \/ SCreateResults \/ SMainRun
  \/ SMainExit

\* main() is about to construct a runner from its arguments
SetupInit ==
  /\ RunnerInit({1}, {[x |-> 1, o |-> 1, empty |-> 0]}, {1})
  /\ first_player_arg = "B"
  /\ delay = 0
  /\ LoadIdle
  /\ ValidIdle
  /\ ExtraIdle
  /\ s_pc = "start"
  /\ s_algo1 \in Names
  /\ s_algo2 \in Names
  /\ s_iterations \in IterationBudgets
  /\ s_map_dir \in {"present", "absent"}
  /\ s_map_file \in MapFileArgs
  /\ s_available_maps = [set |-> FALSE, files |-> {}]
  /\ s_board = "none"
  /\ s_agents = <<>>
  /\ s_error = [type |-> "", on |-> <<>>]

\* the constructor is sequential code: it runs until it returns or raises
SetupSpec == SetupInit /\ [][SetupNext]_vars /\ WF_vars(SetupNext)

(* ============ tournament_runner.py: load_map_from_file ================= *)
\* rows and columns of the board: 7 in the source, scaled down
BoardDim == 2

\* the characters of a map file: the colour letters, '#', any other printing
\* character, white space
Chars == {"B", "W", "#", ".", " "}

\* the lines a file can hold, up to one character more than a row takes
Lines == UNION { [1..k -> Chars] : k \in 0..(BoardDim + 1) }

RECURSIVE StripLeft(_)
StripLeft(line) ==
  IF line # <<>> /\ Head(line) = " " THEN StripLeft(Tail(line)) ELSE line

RECURSIVE StripRight(_)
StripRight(line) ==
  IF line # <<>> /\ line[Len(line)] = " "
    THEN StripRight(SubSeq(line, 1, Len(line) - 1))
    ELSE line

\* str.strip()
Strip(line) == StripRight(StripLeft(line))

\* lines 95-100: the value written for a character; any other character
\* leaves the 0 of np.zeros
CellValue(char, old) ==
  IF char = "B" THEN 1
  ELSE IF char = "W" THEN -1
  ELSE IF char = "#" THEN 0
  ELSE old

\* lines 90, 94-100: one line of the file fills one row of the board
LoadRow(row, line) ==
  LET chars == Strip(Strip(line))
  IN [c \in 1..BoardDim |->
        IF c <= Len(chars) THEN CellValue(chars[c], row[c]) ELSE row[c]]

\* np.zeros((7, 7), dtype=int)
Zeros == [r \in 1..BoardDim |-> [c \in 1..BoardDim |-> 0]]

\* lines 111-119: get_default_board
DefaultBoard ==
  [r \in 1..BoardDim |-> [c \in 1..BoardDim |->
     IF (r = 1 /\ c = 1) \/ (r = BoardDim /\ c = BoardDim) THEN 1
     ELSE IF (r = 1 /\ c = BoardDim) \/ (r = BoardDim /\ c = 1) THEN -1
     ELSE 0]]

\* the variables load_map_from_file does not touch
beside_load == <<runner, move_score_manager, chan, hyb, setup, valid, extra, runs>>

\* lines 88-92: the file is read and an empty board created
LOpen ==
  /\ l_pc = "idle"
  /\ l_board' = Zeros
  /\ l_r' = 0
  /\ l_pc' = "rows"
  /\ UNCHANGED <<beside_load, l_line>>

\* lines 104-109: open or readlines raised; the default board is returned
LOpenFails ==
  /\ l_pc = "idle"
  /\ l_board' = DefaultBoard
  /\ l_pc' = "returned"
  /\ UNCHANGED <<beside_load, l_r, l_line>>

\* lines 93-100: the next of the first 7 lines fills its row
LReadRow ==
  /\ l_pc = "rows"
  /\ l_r < BoardDim
  /\ \E line \in Lines :
       /\ l_line' = line
       /\ l_board' = [l_board EXCEPT ![l_r + 1] = LoadRow(@, line)]
  /\ l_r' = l_r + 1
  /\ UNCHANGED <<beside_load, l_pc>>

\* line 102: the file has no further line, or 7 lines were read and the
\* rest is not looked at
LReturn ==
  /\ l_pc = "rows"
  /\ l_pc' = "returned"
  /\ UNCHANGED <<beside_load, l_r, l_line, l_board>>

LoadNext == LOpen \/ LOpenFails \/ LReadRow \/ LReturn

\* load_map_from_file is about to be called
LoadInit ==
  /\ InitWith({1}, {[x |-> 1, o |-> 1, empty |-> 0]}, {1})
  /\ first_player_arg = "B"
  /\ delay = 0

LoadSpec == LoadInit /\ [][LoadNext]_vars

(* ======= tournament_runner.py: the end of run_tournament (284-302) ===== *)
MaxTally == 1        \* largest wins, losses or draws counter of a table

\* the tables validation can be handed, consistent or not
Tables(a1, a2) ==
  [{a1, a2} -> [wins : 0..MaxTally, losses : 0..MaxTally, draws : 0..MaxTally,
                avg_pieces : {0}, games_played : 0..(2 * MaxTally)]]

\* line 306: sum(self.results[agent]["games_played"] for agent in self.results)
RECURSIVE SumGamesPlayed(_, _)
SumGamesPlayed(res, agents) ==
  IF agents = {} THEN 0
  ELSE LET a == CHOOSE n \in agents : TRUE
       IN res[a].games_played + SumGamesPlayed(res, agents \ {a})

\* lines 306-319: the warnings validate_results prints
validate_results(res, per_match) ==
  LET total_games_played == SumGamesPlayed(res, DOMAIN res)
      expected_games == per_match * 2 * Cardinality(DOMAIN res)
      agent_total(a) == res[a].wins + res[a].losses + res[a].draws
  IN (IF total_games_played # expected_games
        THEN {[kind |-> "total", agent |-> ""]} ELSE {})
     \cup {[kind |-> "inconsistent", agent |-> a] :
             a \in {n \in DOMAIN res : agent_total(n) # res[n].games_played}}

\* a validation that rewrites games_played (mutation of the code)
AfterValidationRepairs(res) ==
  [n \in DOMAIN res |->
     [res[n] EXCEPT !.games_played = res[n].wins + res[n].losses + res[n].draws]]

\* lines 304-319 assign nothing: self.results is as it was
AfterValidation(res) == res

\* the variables the end of run_tournament does not touch
beside_valid == <<runner, chan, hyb, setup, load, extra, runs>>

\* line 286: self.validate_results()
VValidate ==
  /\ v_pc = "start"
  /\ v_warnings' = validate_results(v_results, v_games_per_match)
  /\ v_results' = AfterValidation(v_results)
  /\ v_pc' = "validated"
  /\ UNCHANGED <<beside_valid, move_score_manager, v_games_per_match, v_saved>>

\* lines 288-302: the summary is printed, the store cleared and the rows
\* handed to save_results
VSave ==
  /\ v_pc = "validated"
  /\ move_score_manager' = clear_scores(move_score_manager)
  /\ v_saved' = ResultRows(v_results, algo1, algo2)
  /\ v_pc' = "saved"
  /\ UNCHANGED <<beside_valid, v_results, v_games_per_match, v_warnings>>

ValidNext == VValidate \/ VSave

\* run_tournament has reached line 284 with some table
ValidInit ==
  /\ RunnerInit({1}, {[x |-> 1, o |-> 1, empty |-> 0]}, {1})
  /\ first_player_arg = "B"
  /\ delay = 0
  /\ SetupIdle
  /\ LoadIdle
  /\ ExtraIdle
  /\ v_pc = "start"
  /\ v_results \in Tables(algo1, algo2)
  /\ v_games_per_match \in GamesPerMatch
  /\ v_warnings = {}
  /\ v_saved = <<>>

ValidSpec == ValidInit /\ [][ValidNext]_vars

(* ============ run_tournament called again on the same runner =========== *)
MaxRuns == 2         \* run_tournament calls on one runner

\* run_tournament has returned and is called once more; the records kept of
\* the run that ended are started afresh
CallAgain ==
  /\ pc = "done"
  /\ runs < MaxRuns
  /\ runs' = runs + 1
  /\ pc' = "idle"
  /\ games' = <<>>
  /\ validated' = FALSE
  /\ cancelled_at' = ""
  /\ results_at_cancel' = results
  /\ UNCHANGED <<chan, hyb, setup, load, valid, extra, cfg, running, paused, results,
                 move_score_manager, gamevars, round, game_num, saved, result,
                 hybridhist, scorehist>>

\* game_ui.py apply_settings, lines 778-779 and 802-803: before a run the
\* driver zeroes the table and sets running and paused
ApplySettings ==
  /\ pc = "idle"
  /\ runs > 1
  /\ results' = NewResults(algo1, algo2)
  /\ running' = TRUE
  /\ paused' = FALSE
  /\ cancelled_at' = ""
  /\ results_at_cancel' = results'
  /\ UNCHANGED <<beside_runner, cfg, move_score_manager, pc, gamevars,
                 tourvars, result, hybridhist, scorehist>>

RerunNext == Next \/ CallAgain \/ ApplySettings

\* one-game matches on a board with one empty cell
RerunInit ==
  /\ InitWith({1}, {[x |-> 1, o |-> 1, empty |-> 1]}, {1})
  /\ first_player_arg = "B"

RerunSpec == RerunInit /\ [][RerunNext]_vars

(* ============ tournament_runner.py: save_results (321-397) ============= *)
\* the pairings whose results are saved
SaveNames ==
  { <<"MCTS", "_", "Domain", "_", "600">>, <<"MCTS">>, <<"Minimax", "+", "AB">> }

\* the counters of an identity that played no game / that played two
NoGames == [wins |-> 0, losses |-> 0, draws |-> 0, avg_pieces |-> 0, games_played |-> 0]
TwoGames == [wins |-> 1, losses |-> 1, draws |-> 0, avg_pieces |-> 2, games_played |-> 2]

\* a row an earlier run left in the record store
OldRow == [Agent |-> <<"MCTS">>, Opponent |-> <<"Minimax">>, Wins |-> 2,
           Losses |-> 0, Draws |-> 0, TotalGames |-> 2, Iterations |-> 300]

\* the record store before the call: no file, or a file with rows
Stores == { [exists |-> FALSE, rows |-> <<>>],
            [exists |-> TRUE, rows |-> <<OldRow>>],
            [exists |-> TRUE, rows |-> <<OldRow, OldRow>>] }

Platforms == {"Linux", "Emscripten"}

\* lines 333-346: one row per identity with at least one game; the row's
\* Iterations is self.iterations
DataRows(res, a1, a2, iterations) ==
  LET Row(name) == [Agent |-> name,
                    Opponent |-> IF name = a1 THEN a2 ELSE a1,
                    Wins |-> res[name].wins,
                    Losses |-> res[name].losses,
                    Draws |-> res[name].draws,
                    TotalGames |-> res[name].games_played,
                    Iterations |-> iterations]
      Rows(name) == IF res[name].games_played > 0 THEN <<Row(name)>> ELSE <<>>
  IN Rows(a1) \o Rows(a2)

\* line 359: pd.concat([existing_df, new_df], ignore_index=True)
Concat(existing_df, new_df) == existing_df \o new_df

\* the variables save_results does not touch
beside_save == <<runner, move_score_manager, chan, hyb, setup, load, valid, runs,
                 det, snap>>

\* lines 323-346: the rows are built
FBuildRows ==
  /\ f_pc = "start"
  /\ f_new' = DataRows(f_results, s_algo1, s_algo2, s_iterations)
  /\ f_pc' = "built"
  /\ UNCHANGED <<beside_save, f_platform, f_results, f_store, f_store0,
                 f_combined, f_printed, f_failed_at>>

\* lines 351-354: under Pyodide the rows are printed and nothing is written
FEmscripten ==
  /\ f_pc = "built"
  /\ f_platform = "Emscripten"
  /\ f_printed' = f_new
  /\ f_pc' = "returned"
  /\ UNCHANGED <<beside_save, f_platform, f_results, f_store, f_store0, f_new,
                 f_combined, f_failed_at>>

\* lines 357-360: the existing store is read and the new rows put after it
FReadExisting ==
  /\ f_pc = "built"
  /\ f_platform # "Emscripten"
  /\ f_store.exists
  /\ f_combined' = Concat(f_store.rows, f_new)
  /\ f_pc' = "to_csv"
  /\ UNCHANGED <<beside_save, f_platform, f_results, f_store, f_store0, f_new,
                 f_printed, f_failed_at>>

\* line 358: pd.read_csv raises on a store it cannot read or parse
FReadFails ==
  /\ f_pc = "built"
  /\ f_platform # "Emscripten"
  /\ f_store.exists
  /\ f_failed_at' = "read_csv"
  /\ f_pc' = "except"
  /\ UNCHANGED <<beside_save, f_platform, f_results, f_store, f_store0, f_new,
                 f_combined, f_printed>>

\* lines 361-363: no store yet
FNoStore ==
  /\ f_pc = "built"
  /\ f_platform # "Emscripten"
  /\ ~f_store.exists
  /\ f_combined' = f_new
  /\ f_pc' = "to_csv"
  /\ UNCHANGED <<beside_save, f_platform, f_results, f_store, f_store0, f_new,
                 f_printed, f_failed_at>>

\* line 365: to_csv cannot open the path for writing
FOpenFails ==
  /\ f_pc = "to_csv"
  /\ f_failed_at' = "open"
  /\ f_pc' = "except"
  /\ UNCHANGED <<beside_save, f_platform, f_results, f_store, f_store0, f_new,
                 f_combined, f_printed>>

\* line 365: to_csv opens the path for writing, which empties the file
FOpen ==
  /\ f_pc = "to_csv"
  /\ f_store' = [exists |-> TRUE, rows |-> <<>>]
  /\ f_pc' = "writing"
  /\ UNCHANGED <<beside_save, f_platform, f_results, f_store0, f_new,
                 f_combined, f_printed, f_failed_at>>

\* line 365: the write fails after some of the rows
FWriteFails ==
  /\ f_pc = "writing"
  /\ \E k \in 0..(Len(f_combined) - 1) :
       f_store' = [exists |-> TRUE, rows |-> SubSeq(f_combined, 1, k)]
  /\ f_failed_at' = "write"
  /\ f_pc' = "except"
  /\ UNCHANGED <<beside_save, f_platform, f_results, f_store0, f_new,
                 f_combined, f_printed>>

\* line 365: every row of combined_df is written
FWritten ==
  /\ f_pc = "writing"
  /\ f_store' = [exists |-> TRUE, rows |-> f_combined]
  /\ f_pc' = "report"
  /\ UNCHANGED <<beside_save, f_platform, f_results, f_store0, f_new,
                 f_combined, f_printed, f_failed_at>>

\* lines 368-372, 374-381: the rows built at lines 336-346 have no AvgPieces
\* column, so row['AvgPieces'] raises KeyError for the first new row, and
\* the aggregation over AvgPieces raises when there are older rows only
FReportRaises ==
  /\ f_pc = "report"
  /\ (f_new # <<>> \/ Len(f_combined) > Len(f_new))
  /\ f_failed_at' = "report"
  /\ f_pc' = "except"
  /\ UNCHANGED <<beside_save, f_platform, f_results, f_store, f_store0, f_new,
                 f_combined, f_printed>>

\* line 389: return combined_df, with nothing to report
FReturn ==
  /\ f_pc = "report"
  /\ f_new = <<>>
  /\ Len(f_combined) <= Len(f_new)
  /\ f_pc' = "returned"
  /\ UNCHANGED <<beside_save, f_platform, f_results, f_store, f_store0, f_new,
                 f_combined, f_printed, f_failed_at>>

\* lines 391-397: except Exception: the new rows are printed and returned
FExcept ==
  /\ f_pc = "except"
  /\ f_printed' = f_new
  /\ f_pc' = "returned"
  /\ UNCHANGED <<beside_save, f_platform, f_results, f_store, f_store0, f_new,
                 f_combined, f_failed_at>>

SaveNext ==
  \/ FBuildRows \/ FEmscripten \/ FReadExisting \/ FReadFails \/ FNoStore
  \/ FOpenFails \/ FOpen \/ FWriteFails \/ FWritten \/ FReportRaises
  \/ FReturn \/ FExcept

\* a runner constructed for two different names has reached line 302
SaveInit ==
  /\ RunnerInit({1}, {[x |-> 1, o |-> 1, empty |-> 0]}, {1})
  /\ first_player_arg = "B"
  /\ delay = 0
  /\ LoadIdle
  /\ ValidIdle
  /\ s_pc = "run_tournament"
  /\ s_algo1 \in SaveNames
  /\ s_algo2 \in SaveNames \ {s_algo1}
  /\ s_iterations \in IterationBudgets
  /\ s_map_dir = "absent"
  /\ s_map_file = ""
  /\ s_available_maps = [set |-> FALSE, files |-> {}]
  /\ s_board = "default"
  /\ s_agents = Register(Register(<<>>, s_algo1, Resolve(s_algo1, s_iterations)),
                         s_algo2, Resolve(s_algo2, s_iterations))
  /\ s_error = [type |-> "", on |-> <<>>]
  /\ f_pc = "start"
  /\ f_platform \in Platforms
  /\ f_results \in [{s_algo1, s_algo2} -> {NoGames, TwoGames}]
  /\ f_store \in Stores
  /\ f_store0 = f_store
  /\ f_new = <<>>
  /\ f_combined = <<>>
  /\ f_printed = <<>>
  /\ f_failed_at = ""
  /\ DetIdle
  /\ SnapIdle

SaveSpec == SaveInit /\ [][SaveNext]_vars

(* ====== a tournament of one deterministic strategy under two names ====== *)
\* setup_game lines 65-66: both names are given a MinimaxAgent of the same
\* depth, a strategy whose move is a function of the state it is given
StubPairs == { <<"Minimax", "Minimax+AB">> }

\* the variables of the other components
beside_det == <<chan, hyb, setup, load, valid, save, snap, runs>>

\* line 176: the strategy returns a move whenever there is a legal one, and
\* in the Round 2 game the move it returned in the same state of the
\* Round 1 game
StubGetMoveReturn ==
  /\ GetMoveReturn
  /\ move' # None
  /\ round = 2 => /\ move_count < Len(d_played)
                  /\ move' = d_played[move_count + 1].move

\* lines 183-201: the engine applies the move; in the Round 2 game the board
\* is the one the same move gave in the same state of the Round 1 game
StubApplyMove ==
  /\ pc = "after_call"
  /\ ~CancelledAfterCall(running)
  /\ move # None
  /\ \E s2 \in make_move(state, move) :
       /\ round = 2 => s2 = d_played[move_count + 1].to
       /\ state' = s2
       /\ x_pieces' = s2.x
       /\ o_pieces' = s2.o
       /\ d_played' = IF round = 1
                        THEN Append(d_played, [move |-> move, to |-> s2])
                        ELSE d_played
  /\ move_count' = move_count + 1
  /\ move' = None
  /\ since_call' = IF delay > 0 THEN Suspended(since_call) ELSE since_call
  /\ pc' = IF delay > 0 THEN "delay_sleep" ELSE "while"
  /\ UNCHANGED <<beside_det, cfg, flags, results, move_score_manager,
                 current_x_player, current_o_player, current_agent_name, raised,
                 tourvars, result, hybridhist, scorehist>>

\* a tournament that is neither paused nor cancelled
StubNext ==
  \/ RunTournament \/ StartGame \/ RoundLoopExit \/ GameReturned
  \/ StartRound2 \/ Report
  \/ LoopExit \/ NoLegalMovesPass \/ ResolveAgent
  \/ EnableCollection \/ GetMoveCall \/ StubGetMoveReturn
  \/ DisableCollection \/ StubApplyMove
  \/ DelayWake \/ CountGame \/ AttributeOutcome

StubInit ==
  /\ RunnerInitFor(StubPairs, {1}, InitialBoards(MaxGameEmpty), {1})
  /\ SetupIdle
  /\ LoadIdle
  /\ ValidIdle
  /\ ExtraIdle

StubSpec == StubInit /\ [][StubNext]_vars

(* ========= move_scores.py: the dict get_move_scores returns ============ *)
\* the entries a caller records and writes into a snapshot
SnapMoves == { <<0, 0, 1, 1>>, <<0, 0, 2, 2>> }
SnapScores == {2, 4}

\* the dict object of the store itself handed out (mutation of the code)
SnapshotShares(msm) == [taken |-> TRUE, shared |-> TRUE, entries |-> EmptyMap]

\* lines 39-41: return self._scores.copy(), a new dict object
Snapshot(msm) == [taken |-> TRUE, shared |-> FALSE, entries |-> get_move_scores(msm)]

\* what the holder of the returned dict reads in it
SnapEntries ==
  IF n_snap.shared THEN get_move_scores(move_score_manager) ELSE n_snap.entries

\* the calls that write the store
StoreCalls == {"enable", "disable", "record", "record_many", "clear"}

\* the variables of the other components
beside_snap == <<runner, chan, hyb, setup, load, valid, save, det, runs>>

NEnable ==
  /\ \E n \in ChanNames :
       move_score_manager' = enable_score_collection(move_score_manager, n)
  /\ n_op' = "enable"
  /\ UNCHANGED <<beside_snap, n_snap>>

NDisable ==
  /\ move_score_manager' = disable_score_collection(move_score_manager)
  /\ n_op' = "disable"
  /\ UNCHANGED <<beside_snap, n_snap>>

NRecord ==
  /\ \E m \in SnapMoves, sc \in SnapScores :
       move_score_manager' = store_move_score(move_score_manager, m, sc)
  /\ n_op' = "record"
  /\ UNCHANGED <<beside_snap, n_snap>>

NRecordMany ==
  /\ \E ms \in [SnapMoves -> SnapScores] :
       move_score_manager' = store_move_scores(move_score_manager, ms)
  /\ n_op' = "record_many"
  /\ UNCHANGED <<beside_snap, n_snap>>

NClear ==
  /\ move_score_manager' = clear_scores(move_score_manager)
  /\ n_op' = "clear"
  /\ UNCHANGED <<beside_snap, n_snap>>

\* a caller takes a snapshot and keeps it
NReadAll ==
  /\ n_snap' = Snapshot(move_score_manager)
  /\ n_op' = "read_all"
  /\ UNCHANGED <<beside_snap, move_score_manager>>

\* the holder of a snapshot assigns an entry of the dict it was given
NSnapshotAssign ==
  /\ n_snap.taken
  /\ \E m \in SnapMoves, sc \in SnapScores :
       IF n_snap.shared
         THEN /\ move_score_manager' =
                   [move_score_manager EXCEPT
                      !.scores = Update(@, [k \in {m} |-> sc])]
              /\ UNCHANGED n_snap
         ELSE /\ n_snap' = [n_snap EXCEPT
                              !.entries = Update(@, [k \in {m} |-> sc])]
              /\ UNCHANGED move_score_manager
  /\ n_op' = "snapshot_write"
  /\ UNCHANGED beside_snap

\* the holder of a snapshot empties the dict it was given
NSnapshotClear ==
  /\ n_snap.taken
  /\ IF n_snap.shared
       THEN /\ move_score_manager' = [move_score_manager EXCEPT !.scores = EmptyMap]
            /\ UNCHANGED n_snap
       ELSE /\ n_snap' = [n_snap EXCEPT !.entries = EmptyMap]
            /\ UNCHANGED move_score_manager
  /\ n_op' = "snapshot_write"
  /\ UNCHANGED beside_snap

SnapNext ==
  \/ NEnable \/ NDisable \/ NRecord \/ NRecordMany \/ NClear
  \/ NReadAll \/ NSnapshotAssign \/ NSnapshotClear

\* the store alone: the runner is constructed and never started
SnapInit ==
  /\ RunnerInit({1}, {[x |-> 1, o |-> 1, empty |-> 0]}, {1})
  /\ first_player_arg = "B"
  /\ delay = 0
  /\ SetupIdle
  /\ LoadIdle
  /\ ValidIdle
  /\ ExtraIdle

SnapSpec == SnapInit /\ [][SnapNext]_vars

(* ===== game_ui.py: the game loop run_with_ui puts in place of play_game ===== *)
\* run_tournament line 263 / 276 and play_game_with_live_updates lines
\* 884-896: the store is cleared by run_tournament only
UIStartGame ==
  /\ pc = "round_loop"
  /\ game_num < games_per_match
  /\ running
  /\ state' = AtaxxState(initial_board, first_player)
  /\ LET forward == (round = 1)
         xp == XPlayer(algo1, algo2, forward)
         op == OPlayer(algo1, algo2, forward)
     IN /\ current_x_player' = xp
        /\ current_o_player' = op
        /\ games' = Append(games, [round |-> round, x |-> xp, o |-> op,
                                   first |-> state'.current_player])
  /\ move_score_manager' = clear_scores(move_score_manager)
  /\ move_count' = 0
  /\ x_pieces' = 0
  /\ o_pieces' = 0
  /\ recorded_this_turn' = {}
  /\ since_call' = "none"
  /\ pc' = "while"
  /\ UNCHANGED <<beside_runner, cfg, flags, results, round, game_num, current_agent_name,
                 move, raised, result, hybridhist, calls_since_enable,
                 entries_before_enable, validated, saved>>

\* lines 903-911: a QUIT event or the ESCAPE key ends the game at the head
\* of the loop
UIQuitEvent ==
  /\ pc = "while"
  /\ LoopCondition(state, running)
  /\ running' = FALSE
  /\ cancelled_at' = pc
  /\ results_at_cancel' = results
  /\ result' = None
  /\ FrameReleased
  /\ pc' = "game_returned"
  /\ UNCHANGED <<beside_runner, cfg, paused, results, move_score_manager, tourvars,
                 hybridhist, scorehist>>

\* lines 912-913: the SPACE key toggles paused
UISpaceEvent ==
  /\ pc = "while"
  /\ LoopCondition(state, running)
  /\ paused' = ~paused
  /\ UNCHANGED <<beside_runner, cfg, running, cancelled_at, results_at_cancel, results,
                 move_score_manager, pc, gamevars, tourvars, result,
                 hybridhist, scorehist>>

\* lines 925-932: the agent of the side to move; get_move is called next
UIResolveAgent ==
  /\ pc = "while"
  /\ LoopCondition(state, running) /\ ~PauseObserved(paused)
  /\ ~MustPass(state)
  /\ current_agent_name' = IF state.current_player = 1 THEN current_x_player
                                                       ELSE current_o_player
  /\ pc' = "get_move"
  /\ UNCHANGED <<beside_runner, cfg, flags, results, move_score_manager, state,
                 current_x_player, current_o_player, move_count, x_pieces,
                 o_pieces, move, raised, since_call, tourvars, result,
                 hybridhist, scorehist>>

\* line 932: agent.get_move(state) is entered, outside any collection
\* session; ABMCTSDomainAgent.get_move lines 12-20 picks its wrapped strategy
UIGetMoveCall ==
  /\ pc = "get_move"
  /\ IF IsHybrid(current_agent_name)
       THEN LET d == Delegate(get_empty_cells(state), transition_threshold)
            IN /\ invoked' = {d}
               /\ move_score_manager' = HybridLabelWrite(move_score_manager, d)
       ELSE UNCHANGED <<invoked, move_score_manager>>
  /\ since_call' = "no_yield"
  /\ pc' = "in_get_move"
  /\ UNCHANGED <<beside_runner, cfg, flags, results, state, current_x_player,
                 current_o_player, move_count, x_pieces, o_pieces,
                 current_agent_name, move, raised, tourvars, result, scorehist>>

\* line 932: get_move returns a move or None; line 934 follows
UIGetMoveReturn ==
  /\ pc = "in_get_move"
  /\ move' \in OfferedMoves \cup {None}
  /\ invoked' = {}
  /\ pc' = "after_call"
  /\ UNCHANGED <<beside_runner, cfg, flags, results, move_score_manager, state,
                 current_x_player, current_o_player, move_count, x_pieces,
                 o_pieces, current_agent_name, raised, since_call, tourvars,
                 result, scorehist>>

\* line 932: get_move raises and the exception leaves the loop
UIGetMoveRaise ==
  /\ pc = "in_get_move"
  /\ raised' = TRUE
  /\ invoked' = {}
  /\ pc' = "raised"
  /\ UNCHANGED <<beside_runner, cfg, flags, results, move_score_manager, state,
                 current_x_player, current_o_player, move_count, x_pieces,
                 o_pieces, current_agent_name, move, since_call, tourvars,
                 result, scorehist>>

\* lines 964-995: the outcome is counted and the MatchResult returned
UIAttributeOutcome ==
  /\ pc = "attribute"
  /\ results' = AddOutcome(results, current_x_player, current_o_player,
                           get_winner(state))
  /\ result' = <<MatchResult(get_winner(state), current_x_player,
                             current_o_player, x_pieces, o_pieces, move_count)>>
  /\ FrameReleased
  /\ pc' = "game_returned"
  /\ UNCHANGED <<beside_runner, cfg, flags, move_score_manager, tourvars, hybridhist,
                 scorehist>>

\* run_tournament with play_game replaced (lines 997-999); the agents'
\* score calls are left out: collection is never enabled, so they change
\* nothing
UINext ==
  \/ RunTournament \/ UIStartGame \/ RoundLoopExit \/ GameReturned
  \/ CancelledReturn \/ StartRound2 \/ Report
  \/ LoopExit \/ UIQuitEvent \/ UISpaceEvent \/ PausedWait \/ PausedWake
  \/ NoLegalMovesPass \/ UIResolveAgent \/ UIGetMoveCall \/ UIGetMoveReturn
  \/ UIGetMoveRaise \/ AbandonAfterCall \/ ApplyMove \/ AgentPass
  \/ DelayWake \/ AbandonAtEnd \/ CountGame \/ UIAttributeOutcome
  \/ Cancel \/ TogglePause

UISpec == GameInit /\ [][UINext]_vars

(* ======================= properties of the claims ====================== *)
Identities == {algo1, algo2}
StoreEntries(msm) == get_move_scores(msm)
CallPcs == {"get_move", "in_get_move", "finally"}
Completed == pc = "done" /\ running
FirstMover(g) == IF g.first = 1 THEN g.x ELSE g.o
Consistent(r) == r.wins + r.losses + r.draws = r.games_played

\* C1: while a get_move call of the hybrid agent is pending, exactly one
\* wrapped strategy has been called: the tactical one when the empty-cell
\* count of the state passed in exceeds the threshold, the sampling one
\* otherwise (so also when they are equal); nothing but the state and the
\* threshold of this call enters the choice, and no wrapped strategy is
\* called outside such a call.
C1_DispatchByThreshold ==
  IF pc \in {"in_get_move", "finally"} /\ IsHybrid(current_agent_name)
    THEN invoked = { IF get_empty_cells(state) > transition_threshold
                       THEN "ab_agent" ELSE "mcts_agent" }
    ELSE invoked = {}

C1_Witness ==
  /\ pc = "in_get_move"
  /\ IsHybrid(current_agent_name)
  /\ get_empty_cells(state) = transition_threshold
  /\ invoked = {"mcts_agent"}

\* C2: when run_tournament has returned from a run that was not cancelled,
\* each identity has games_played = 2 * games_per_match and the two sum to
\* 4 * games_per_match; and every step of a run that changes a games_played
\* counter adds one to the counter of exactly two identities.
C2_GamesPlayed ==
  /\ [](Completed =>
          /\ \A n \in Identities : results[n].games_played = 2 * games_per_match
          /\ results[algo1].games_played + results[algo2].games_played
               = 4 * games_per_match)
  /\ [][ (pc # "idle" /\ \E n \in Identities :
             results'[n].games_played # results[n].games_played)
         => Cardinality({ n \in Identities :
               results'[n].games_played = results[n].games_played + 1 }) = 2 ]_vars

C2_Witness ==
  /\ Completed
  /\ games_per_match = 2
  /\ \A n \in Identities : results[n].games_played = 4

\* C3: wherever the driver can observe the run (before it starts, at the two
\* awaited sleeps, during an agent call) and after it has ended, every
\* identity has wins + losses + draws = games_played.
C3_ResultsConsistent ==
  pc \in DriverPoints \cup {"done", "raised"}
    => \A n \in Identities : Consistent(results[n])

C3_Witness ==
  /\ pc = "done"
  /\ ~running
  /\ cancelled_at \in {"in_get_move", "delay_sleep", "paused_sleep"}
  /\ results[algo1].games_played >= 2
  /\ results[algo1].wins >= 1
  /\ results[algo1].losses >= 1

\* C4: a Round 2 game gives each identity the colour the other one held in
\* every Round 1 game; every game starts with the configured first-moving
\* colour to move; and after a completed tournament each identity held the
\* first-moving colour in exactly games_per_match games.
C4_ColoursSwapBalanced ==
  /\ \A i \in DOMAIN games : \A j \in DOMAIN games :
       (games[i].round = 1 /\ games[j].round = 2)
         => (games[j].x = games[i].o /\ games[j].o = games[i].x)
  /\ \A i \in DOMAIN games : games[i].first = first_player
  /\ Completed =>
       \A n \in Identities :
         Cardinality({ i \in DOMAIN games : FirstMover(games[i]) = n })
           = games_per_match

C4_Witness ==
  /\ Completed
  /\ games_per_match = 2
  /\ Len(games) = 4
  /\ games[4].round = 2

\* C5 as stated: in every Round 1 game algo1 holds the colour that moves
\* first and in every Round 2 game algo2 does, whatever the first-player
\* setting.
C5_AlgoOneMovesFirst ==
  \A i \in DOMAIN games :
    /\ games[i].round = 1 => FirstMover(games[i]) = algo1
    /\ games[i].round = 2 => FirstMover(games[i]) = algo2

\* C5 amended: in every Round 1 game algo1 holds X (+1) and algo2 holds O
\* (-1), in every Round 2 game algo2 holds X and algo1 holds O, whatever the
\* first-player setting; the X identity is the one that moves first exactly
\* when the setting is "B", and with any other setting (the default "W") the
\* O identity moves first.
C5_ColoursByRound ==
  \A i \in DOMAIN games :
    /\ games[i].round = 1 => (games[i].x = algo1 /\ games[i].o = algo2)
    /\ games[i].round = 2 => (games[i].x = algo2 /\ games[i].o = algo1)
    /\ (FirstMover(games[i]) = games[i].x) <=> (first_player_arg = "B")
    /\ (FirstMover(games[i]) = games[i].o) <=> (first_player_arg # "B")

C5_Witness ==
  /\ first_player_arg = "W"
  /\ Len(games) >= 1
  /\ games[1].round = 1
  /\ FirstMover(games[1]) = algo2
  /\ pc = "in_get_move"
  /\ move_count = 0
  /\ current_agent_name = algo2

\* C6: once running became false during a pending agent call, no step
\* applies a move, changes the results table, starts a game or hands rows
\* to persistence; play_game returns None; and control only moves from the
\* call through the two returns to the end of run_tournament.
C6_CancelDuringCall ==
  [][ cancelled_at = "in_get_move" =>
        /\ move_count' # move_count + 1
        /\ (state' = state \/ pc' = "game_returned")
        /\ results' = results
        /\ games' = games
        /\ saved' = saved /\ validated' = validated
        /\ result' = None
        /\ pc' \in {"in_get_move", "finally", "after_call", "raised",
                    "game_returned", "after_round", "done"}
        /\ (pc = "after_call" => pc' = "game_returned")
        /\ (pc = "game_returned" => pc' = "after_round")
        /\ (pc = "after_round" => pc' = "done") ]_vars

C6_Witness ==
  /\ cancelled_at = "in_get_move"
  /\ pc = "done"
  /\ Len(games) < 2 * games_per_match
  /\ result = None

\* C7: once running is false, no agent call is started, no move is applied,
\* no result is recorded and no game is started; and run_tournament then
\* returns (or the pending agent call raises).
C7_CancelStops ==
  /\ [][ ~running =>
           /\ pc' \notin {"enable", "get_move"}
           /\ (pc' = "in_get_move" => pc = "in_get_move")
           /\ move_count' # move_count + 1
           /\ (state' = state \/ pc' = "game_returned")
           /\ results' = results
           /\ games' = games ]_vars
  /\ (~running ~> (pc = "done" \/ pc = "raised"))

C7_Witness ==
  /\ cancelled_at = "delay_sleep"
  /\ ~running
  /\ pc = "game_end"
  /\ is_game_over(state)
  /\ move_count >= 1

\* C8 as stated: a tournament cancelled after a completed game still has its
\* results validated and handed to persistence when run_tournament returns.
C8_CancelledStillReported ==
  (pc = "done" /\ ~running /\ \E n \in Identities : results[n].games_played > 0)
    => (validated /\ saved # <<>>)

\* C8 amended: after cancellation the results table stays as it was when
\* running became false, and run_tournament returns without validating the
\* results or handing rows to persistence.
C8_CancelledKeptNotReported ==
  ~running => (results = results_at_cancel /\ ~validated /\ saved = <<>>)

C8_Witness ==
  /\ pc = "done"
  /\ ~running
  /\ \E n \in Identities : results[n].games_played > 0
  /\ ~validated

\* C9: collection is active exactly from the enable before an agent call to
\* the disable after it; when the call starts the store names the identity
\* of the side to move; one enable is followed by one get_move call; and
\* after a call that raised, collection is inactive again.
C9_CollectionBracketsCall ==
  /\ is_enabled(move_score_manager) <=> pc \in CallPcs
  /\ pc = "get_move" =>
       /\ get_current_agent_name(move_score_manager) = current_agent_name
       /\ current_agent_name = IF state.current_player = 1
                                 THEN current_x_player ELSE current_o_player
       /\ calls_since_enable = 0
  /\ pc \in {"in_get_move", "finally"} => calls_since_enable = 1
  /\ pc \notin CallPcs => get_current_agent_name(move_score_manager) = ""

C9_Witness ==
  /\ pc = "raised"
  /\ raised
  /\ ~is_enabled(move_score_manager)

\* C10: when an agent call starts the store is empty, and from one enable to
\* the next every entry in the store was written after that enable.
C10_NoEntryFromEarlierTurn ==
  /\ pc = "get_move" => StoreEntries(move_score_manager) = EmptyMap
  /\ DOMAIN StoreEntries(move_score_manager) \subseteq recorded_this_turn

C10_Witness ==
  /\ pc = "in_get_move"
  /\ entries_before_enable
  /\ move_count >= 1
  /\ StoreEntries(move_score_manager) # EmptyMap

(* ------------------------------ C11 ------------------------------------ *)
\* the points of play_game between the loop head and the return
LoopPcs == {"while", "paused_sleep", "enable", "get_move", "in_get_move",
            "finally", "after_call", "delay_sleep", "game_end", "attribute"}

\* C11 as stated: whenever paused and running are both true inside
\* play_game, the step taken applies no move, flips no player and records no
\* result.
C11_PausedFreezesGame ==
  [][ (paused /\ running /\ pc \in LoopPcs) =>
        /\ move_count' = move_count
        /\ (state' = state \/ pc' = "game_returned")
        /\ results' = results ]_vars

\* C11 amended: the paused flag is read at the loop head only (line 156).
\* When the loop head finds paused and running true and the game not over,
\* the loop stays in the paused wait: no agent call, no enable, no move, no
\* flip, no result, the same game, state and move count; once paused is
\* false the loop goes on from the head with that state; and when running
\* became false during the paused wait the loop leaves the wait by the while
\* condition and play_game returns None with the results table untouched. A
\* pause set while an agent call is pending or during the delay after the
\* last move is not covered: the returned move is applied, the finished game
\* is recorded.
C11_PausedWaitFreezesGame ==
  /\ [][ (paused /\ running /\ pc \in {"while", "paused_sleep"}
            /\ ~is_game_over(state)) =>
           /\ pc' \in {"while", "paused_sleep"}
           /\ state' = state
           /\ move_count' = move_count
           /\ results' = results
           /\ result' = result
           /\ games' = games
           /\ move_score_manager' = move_score_manager ]_vars
  /\ [][ (~paused /\ running /\ pc = "while" /\ ~is_game_over(state)) =>
           /\ pc' \in {"while", "enable"}
           /\ games' = games
           /\ move_count' = move_count
           /\ state' \in {state, Flip(state)} ]_vars
  /\ [][ (~running /\ cancelled_at = "paused_sleep") =>
           /\ results' = results
           /\ result' = None
           /\ move_count' # move_count + 1
           /\ (pc = "paused_sleep" => pc' = "while")
           /\ (pc = "while" => pc' = "game_end")
           /\ (pc = "game_end" => pc' = "game_returned")
           /\ (pc = "game_returned" => pc' = "after_round")
           /\ (pc = "after_round" => pc' = "done") ]_vars

C11_Witness ==
  /\ cancelled_at = "paused_sleep"
  /\ paused
  /\ pc = "game_returned"
  /\ result = None
  /\ Len(games) >= 1

(* ------------------------------ C12 ------------------------------------ *)
\* C12 as stated: when an agent call of a game is about to start, an awaited
\* sleep (the inter-move delay or the paused wait) has been entered since
\* the previous agent call of that game, for every configured delay.
C12_SuspensionBetweenCalls ==
  pc = "get_move" => since_call # "no_yield"

(* ------------------------------ C13 ------------------------------------ *)
\* C13: when the loop head finds the game running, not paused and not over
\* and the side to move without a legal move, the step taken flips the side
\* to move and returns to the loop head: the board, the move count and the
\* score store are unchanged, collection stays inactive and no agent call
\* starts. The move count changes only by one, in the step that applies a
\* returned move with make_move (or is reset with the frame of the game), and
\* the MatchResult returned carries the move count of the game.
C13_ForcedPass ==
  /\ [][ (pc = "while" /\ running /\ ~paused /\ ~is_game_over(state)
            /\ ~has_legal_moves(state)) =>
           /\ state' = [state EXCEPT !.current_player = -state.current_player]
           /\ pc' = "while"
           /\ move_count' = move_count
           /\ move_score_manager' = move_score_manager
           /\ ~is_enabled(move_score_manager')
           /\ calls_since_enable' = calls_since_enable
           /\ since_call' = since_call ]_vars
  /\ [][ move_count' # move_count =>
           \/ /\ pc = "after_call" /\ move # None
              /\ state' \in make_move(state, move)
              /\ move_count' = move_count + 1
           \/ /\ pc' \in {"while", "game_returned"} /\ move_count' = 0 ]_vars
  /\ [][ (pc = "after_call" /\ pc' \in {"while", "delay_sleep"}) =>
           (move_count' = move_count + 1 <=>
              (move # None /\ state' \in make_move(state, move))) ]_vars
  /\ [][ pc = "attribute" => result' = <<[result'[1] EXCEPT !.move_count = move_count]>> ]_vars

\* a forced pass has just happened after an applied move
C13_Witness ==
  /\ pc = "while"
  /\ running
  /\ move_count >= 1
  /\ state.stuck = -state.current_player
  /\ ~is_game_over(state)

(* ------------------------------ C14 ------------------------------------ *)
\* C14: when an agent call has returned no move (the side to move had legal
\* moves, or no call would have been made) and the game was not cancelled,
\* the step taken flips the side to move and returns to the loop head: the
\* board and the move count are unchanged, nothing is raised, no result is
\* recorded, and the game goes on with the other side to move.
C14_NoMoveIsPass ==
  [][ (pc = "after_call" /\ running /\ move = None) =>
        /\ has_legal_moves(state)
        /\ state' = [state EXCEPT !.current_player = -state.current_player]
        /\ move_count' = move_count
        /\ ~raised /\ ~raised'
        /\ results' = results
        /\ games' = games
        /\ pc' = "while" ]_vars

\* the first agent call of a game returned no move: the other side is to move
C14_Witness ==
  /\ pc = "while"
  /\ running
  /\ since_call = "no_yield"
  /\ move_count = 0
  /\ state.current_player = -first_player
  /\ state.stuck = 0

(* ------------------------------ C15 ------------------------------------ *)
\* the identities that hold X and O in the game being played, as assigned
\* when the game started
HoldsX == games[Len(games)].x
HoldsO == games[Len(games)].o
Bit(b) == IF b THEN 1 ELSE 0

\* C15: in either round, the agent called for a side is the identity that
\* was given that colour at the start of the game; when a game is completed,
\* games_played of both identities grows by one and the X piece count of the
\* game is added to the identity holding X, the O piece count to the
\* identity holding O; then a win of X adds one win to the identity holding
\* X and one loss to the identity holding O, a win of O the reverse, and any
\* other outcome one draw to both; no other counter changes, and the
\* MatchResult names the same winner and loser.
C15_AttributionByColour ==
  /\ [](pc \in {"get_move", "in_get_move"} =>
          current_agent_name = IF state.current_player = 1 THEN HoldsX ELSE HoldsO)
  /\ [][ (pc = "game_end" /\ running) =>
           /\ results'[HoldsX] = [results[HoldsX] EXCEPT !.avg_pieces = @ + x_pieces,
                                                         !.games_played = @ + 1]
           /\ results'[HoldsO] = [results[HoldsO] EXCEPT !.avg_pieces = @ + o_pieces,
                                                         !.games_played = @ + 1] ]_vars
  /\ [][ pc = "attribute" =>
           LET w == get_winner(state)
           IN /\ results'[HoldsX] =
                   [results[HoldsX] EXCEPT !.wins = @ + Bit(w = 1),
                                           !.losses = @ + Bit(w = -1),
                                           !.draws = @ + Bit(w \notin {1, -1})]
              /\ results'[HoldsO] =
                   [results[HoldsO] EXCEPT !.wins = @ + Bit(w = -1),
                                           !.losses = @ + Bit(w = 1),
                                           !.draws = @ + Bit(w \notin {1, -1})]
              /\ result'[1].winner = w
              /\ result'[1].winner_name =
                   (IF w = 1 THEN HoldsX ELSE IF w = -1 THEN HoldsO ELSE "None")
              /\ result'[1].loser_name =
                   (IF w = 1 THEN HoldsO ELSE IF w = -1 THEN HoldsX ELSE "None") ]_vars

\* a Round 2 game won by X, held by algo2, has been recorded
C15_Witness ==
  /\ pc = "game_returned"
  /\ round = 2
  /\ result # None
  /\ result[1].winner = 1
  /\ result[1].winner_name = algo2
  /\ results[algo2].wins >= 1
  /\ results[algo1].losses >= 1

(* ------------------------------ C16 ------------------------------------ *)
\* the entries a history of written scores stands for
AsMap(exp) == [m \in { mv \in ChanMoves : exp[mv] # 0 } |-> exp[m]]

\* the producer is between two whole calls
AtBoundary == p_pc # "body"

\* the step in which a producer call of one of the kinds ops returns
Returns(ops) == p_pc = "body" /\ p_pc' = "idle" /\ p_op.op \in ops

\* C16: between producer calls the store holds exactly, for each move
\* written by a record or record_many call made after the latest enable (or
\* clear) and before the disable that followed it, the score of the last
\* such write, and read_all returns that map; a record or record_many call
\* made while collection is inactive returns with the store as it found it;
\* and when clear returns the store is empty.
C16_ReadAllReturnsRecorded ==
  /\ [](AtBoundary => get_move_scores(move_score_manager) = AsMap(expected))
  /\ []((c_pc = "holding" /\ c_op = "read_all") => observed = <<AsMap(expected)>>)
  /\ [][ (Returns({"record", "record_many"}) /\ ~p_before[1].enabled) =>
           move_score_manager' = p_before[1] ]_vars
  /\ [][ Returns({"clear"}) => get_move_scores(move_score_manager') = EmptyMap ]_vars

\* read_all after enable, record calls and disable returns three entries
C16_Witness ==
  /\ c_pc = "holding"
  /\ c_op = "read_all"
  /\ ~session_open
  /\ ~is_enabled(move_score_manager)
  /\ observed = << (<<0, 0, 1, 1>> :> 9) @@ (<<0, 0, 2, 2>> :> 2) @@ (<<3, 3, 2, 2>> :> 4) >>

(* ------------------------------ C17 ------------------------------------ *)
\* C17: when disable returns, collection is inactive, the currently-thinking
\* name is empty and the entries are those the store held when disable was
\* called; and from then on every producer call other than enable and clear,
\* and every consumer call, leaves the entries as they are.
C17_DisableKeepsEntries ==
  /\ [][ Returns({"disable"}) =>
           /\ ~is_enabled(move_score_manager')
           /\ get_current_agent_name(move_score_manager') = ""
           /\ get_move_scores(move_score_manager') = get_move_scores(p_before[1]) ]_vars
  /\ [][ (Returns({"disable", "record", "record_many"}) /\ ~p_before[1].enabled) =>
           get_move_scores(move_score_manager') = get_move_scores(p_before[1]) ]_vars
  /\ [][ c_pc' # c_pc => move_score_manager' = move_score_manager ]_vars

\* entries recorded in a session are still in the store after its disable
C17_Witness ==
  /\ p_pc = "idle"
  /\ ~session_open
  /\ ~is_enabled(move_score_manager)
  /\ get_current_agent_name(move_score_manager) = ""
  /\ DOMAIN get_move_scores(move_score_manager) = { <<0, 0, 1, 1>>, <<3, 3, 2, 2>> }

(* ------------------------------ C18 ------------------------------------ *)
\* the largest element of a non-empty set of scores
MaxOf(S) == CHOOSE x \in S : \A y \in S : y <= x

\* for each destination cell of an entry, the largest score of the entries
\* landing on it
DestMax(scores) ==
  [d \in { <<m[3], m[4]>> : m \in DOMAIN scores } |->
     MaxOf({ scores[m] : m \in { mv \in DOMAIN scores : <<mv[3], mv[4]>> = d } })]

\* the entries {(0,0,1,1): 0.4, (0,0,2,2): 0.9, (3,3,2,2): 0.2}, in tenths
ExampleEntries ==
  (<<0, 0, 1, 1>> :> 4) @@ (<<0, 0, 2, 2>> :> 9) @@ (<<3, 3, 2, 2>> :> 2)

\* C18: the map returned by get_destination_scores has as keys exactly the
\* destination cells of the entries in the store and as value of each key the
\* largest score of the entries landing on that cell, whatever the order in
\* which the entries are iterated; for the entries {(0,0,1,1): 0.4,
\* (0,0,2,2): 0.9, (3,3,2,2): 0.2} it is {(2,2): 0.9, (1,1): 0.4}.
C18_BestDestination ==
  (c_pc = "holding" /\ c_op = "best_destination") =>
    /\ observed = <<DestMax(get_move_scores(move_score_manager))>>
    /\ get_move_scores(move_score_manager) = ExampleEntries =>
         observed = << (<<2, 2>> :> 9) @@ (<<1, 1>> :> 4) >>

C18_Witness ==
  /\ c_pc = "holding"
  /\ c_op = "best_destination"
  /\ get_move_scores(move_score_manager) = ExampleEntries
  /\ DOMAIN observed[1] = { <<1, 1>>, <<2, 2>> }

(* ------------------------------ C19 ------------------------------------ *)
\* the values a consumer call can return for the store b
Returned(call, b) ==
  IF call = "read_all" THEN { <<get_move_scores(b)>> }
  ELSE IF call = "best_destination"
    THEN { <<get_destination_scores(b, order)>> : order \in Orders(DOMAIN b.scores) }
  ELSE IF call = "is_enabled" THEN { <<is_enabled(b)>> }
  ELSE { <<get_current_agent_name(b)>> }

\* the store before and after the producer call in progress, or the store
\* itself when no producer call is in progress
Boundaries ==
  IF p_pc = "body" THEN { p_before[1], ApplyCall(p_op, p_before[1]) }
                   ELSE { move_score_manager }

\* C19: a consumer call never runs while the body of a producer call is in
\* progress; the value it returns is the value for the store as it is before
\* or after a whole producer call, so a read contains all or none of a
\* record_many batch; when it finds collection active the enable call has
\* completed, the name is the one given to it and every entry was written
\* after it; and each producer call, however its statements are interleaved
\* with consumer calls, changes the store as the call does when run alone.
C19_CallsAreAtomic ==
  /\ [](~(p_pc = "body" /\ c_pc = "holding"))
  /\ [](c_pc = "holding" =>
          /\ \E b \in Boundaries : observed \in Returned(c_op, b)
          /\ is_enabled(move_score_manager) =>
               /\ session_open
               /\ get_current_agent_name(move_score_manager) \in ChanNames
               /\ get_move_scores(move_score_manager) = AsMap(expected))
  /\ [][ (p_pc = "body" /\ p_pc' = "idle") =>
           move_score_manager = ApplyCall(p_op, p_before[1]) ]_vars

\* a consumer read holds the lock while the producer waits to record a batch
C19_Witness ==
  /\ c_pc = "holding"
  /\ c_op = "read_all"
  /\ p_pc = "acquire"
  /\ p_op.op = "record_many"
  /\ Cardinality(DOMAIN p_op.arg) = 2
  /\ is_enabled(move_score_manager)
  /\ get_move_scores(move_score_manager) # EmptyMap

(* ------------------------------ C20 ------------------------------------ *)
\* C20 as stated: a producer that has called record, record_many, enable,
\* disable or clear can take the lock and proceed although a read_all of the
\* consumer is in progress.
C20_ReadNeverBlocksWriter ==
  (p_pc = "acquire" /\ c_pc = "holding" /\ c_op = "read_all") => CanAcquire(lock)

\* C20 amended: read_all holds the lock of the channel while it copies the
\* entries, and for no longer. While a consumer call is in progress the lock
\* is held by the consumer, the store does not change and a producer call can
\* be made but cannot enter its body: it waits. The consumer's next step
\* releases the lock; and whenever no consumer call is in progress the lock
\* is not held by the consumer, so a waiting producer call whose lock is free
\* can proceed.
C20_ReadHoldsLockWhileCopying ==
  /\ [](c_pc = "holding" => (lock = "consumer" /\ ~CanAcquire(lock)))
  /\ [](c_pc = "idle" => lock # "consumer")
  /\ []((p_pc = "acquire" /\ c_pc = "idle") => (CanAcquire(lock) /\ ENABLED ProducerAcquire))
  /\ [][ (c_pc = "holding" /\ c_pc' = "holding") =>
           /\ move_score_manager' = move_score_manager
           /\ (p_pc' = p_pc \/ (p_pc = "idle" /\ p_pc' = "acquire")) ]_vars
  /\ [][ (c_pc = "holding" /\ c_pc' # "holding") =>
           (c_pc' = "idle" /\ lock' = "free") ]_vars

\* a record call waits for the lock held by a read_all in progress
C20_Witness ==
  /\ p_pc = "acquire"
  /\ p_op.op = "record"
  /\ c_pc = "holding"
  /\ c_op = "read_all"
  /\ lock = "consumer"

(* ------------------------------ C21 ------------------------------------ *)
\* C21 as stated: the score store is empty when the loop of a game is first
\* entered and when play_game has returned, whether it returned a result or
\* None.
C21_StoreEmptyAtGameEnds ==
  /\ (pc = "while" /\ since_call = "none" /\ move_count = 0) =>
       get_move_scores(move_score_manager) = EmptyMap
  /\ pc = "game_returned" => get_move_scores(move_score_manager) = EmptyMap

(* ------------------------------ C22 ------------------------------------ *)
\* the label a call of the hybrid agent on the given state must publish
LabelFor(s, t) ==
  IF get_empty_cells(s) > t THEN "AB+MCTS_Domain(using_Minimax)"
                            ELSE "AB+MCTS_Domain(using_MCTS)"

\* C22: with collection active, get_move of the hybrid agent sets the label
\* to the label of the strategy it selects (Minimax when the empty cells
\* exceed the threshold, MCTS otherwise) before that strategy runs, so every
\* score recorded during the call is recorded under that label; with
\* collection inactive the call leaves the store as it was.
C22_LabelNamesStrategy ==
  /\ []((h_pc \in {"delegated", "strategy_returned"} /\
         is_enabled(move_score_manager)) =>
          /\ get_current_agent_name(move_score_manager) =
               LabelFor(state, transition_threshold)
          /\ \E d \in invoked :
               DelegateLabel(d) = get_current_agent_name(move_score_manager))
  /\ [][(h_pc = "idle" /\ h_pc' = "delegated") =>
          IF is_enabled(move_score_manager)
            THEN /\ is_enabled(move_score_manager')
                 /\ get_current_agent_name(move_score_manager') =
                      LabelFor(state', transition_threshold)
                 /\ get_move_scores(move_score_manager') =
                      get_move_scores(move_score_manager)
            ELSE move_score_manager' = move_score_manager]_vars
  /\ [][(h_pc = "delegated" /\
         get_move_scores(move_score_manager') #
           get_move_scores(move_score_manager)) =>
          /\ get_current_agent_name(move_score_manager) =
               LabelFor(state, transition_threshold)
          /\ get_current_agent_name(move_score_manager') =
               get_current_agent_name(move_score_manager)]_vars

\* the Minimax strategy has recorded a score under its own label
C22_Witness ==
  /\ h_pc = "delegated"
  /\ is_enabled(move_score_manager)
  /\ get_empty_cells(state) > transition_threshold
  /\ get_current_agent_name(move_score_manager) = "AB+MCTS_Domain(using_Minimax)"
  /\ get_move_scores(move_score_manager) # EmptyMap

(* ------------------------------ C23 ------------------------------------ *)
\* C23: get_move of the hybrid agent returns exactly the value the one
\* wrapped strategy it delegated to returned: None when that strategy
\* returned None, and never a move no wrapped strategy produced.
C23_ReturnsStrategyValue ==
  h_pc = "returned" =>
    /\ Cardinality(invoked) = 1
    /\ h_return = h_result
    /\ (h_result = None => h_return = None)
    /\ (h_return # None => h_return \in Moves /\ h_return = h_result)

\* the wrapped strategy had no move and the caller received None
C23_Witness ==
  /\ h_pc = "returned"
  /\ invoked = {"mcts_agent"}
  /\ h_result = None
  /\ h_return = None

(* ------------------------------ C24 ------------------------------------ *)
\* the two names of the pairing
SetupNames == {s_algo1, s_algo2}

\* the name ends in a number
HasNumericSuffix(n) == n[Len(n)] \in NumberTokens

\* C24 as stated: for every name carrying the MCTS-domain marker, setup does
\* not fail on the name, and the agent registered for it has the number the
\* name ends in as its iteration budget, or the configured default when the
\* name ends in no number.
C24_DomainIterationBudget ==
  \A n \in SetupNames :
    Contains(n, Marker) =>
      /\ s_error # [type |-> "ValueError", on |-> n]
      /\ n \in DOMAIN s_agents =>
           s_agents[n].iterations =
             IF HasNumericSuffix(n) THEN IntOf(n[Len(n)]) ELSE s_iterations

(* ------------------------------ C25 ------------------------------------ *)
\* the outcome the lookup of the specification gives a name
LookupOutcome(n) ==
  IF n \in {<<"Minimax">>, <<"Minimax", "+", "AB">>} THEN "MinimaxAgent"
  ELSE IF Contains(n, ABMarker) THEN "ABMCTSDomainAgent"
  ELSE IF Contains(n, Marker) THEN "MCTSDomainAgent"
  ELSE IF n = <<"MCTS">> THEN "MCTSAgent"
  ELSE "rejected"

\* what setup did with a name so far
SetupOutcome(n) ==
  IF s_error = [type |-> "ValueError", on |-> n] THEN "rejected"
  ELSE IF n \in DOMAIN s_agents THEN s_agents[n].kind
  ELSE "pending"

\* C25 as stated: every name setup has dealt with got the one outcome the
\* lookup gives it: the tactical strategy for the Minimax names, the hybrid
\* dispatcher for AB prefix plus marker, the domain-augmented strategy for
\* the marker alone, the baseline strategy for plain MCTS, rejection for
\* every other name.
C25_OneOutcomePerName ==
  \A n \in SetupNames : SetupOutcome(n) \in {"pending", LookupOutcome(n)}

(* ------------------------------ C26 ------------------------------------ *)
\* a name no pattern of the lookup matches
Unrecognized(n) ==
  /\ n \notin {<<"Minimax">>, <<"Minimax", "+", "AB">>, <<"MCTS">>}
  /\ ~Contains(n, Marker)

BadPairing == Unrecognized(s_algo1) \/ Unrecognized(s_algo2)

\* C26: when either name is unrecognized, whichever it is, the constructor
\* never returns a runner and run_tournament is never called; setup ends in
\* an error, which is the ValueError main turns into exit(1) whenever the
\* board was chosen.
C26_UnknownNameAbortsSetup ==
  /\ [](BadPairing =>
          /\ s_pc \notin {"results", "constructed", "run_tournament"}
          /\ pc = "idle"
          /\ (s_pc \in {"failed", "exit1"} => s_error.type = "ValueError")
          /\ (s_pc = "crashed" => s_board = "none"))
  /\ ((BadPairing /\ s_pc = "start") ~> (s_pc \in {"exit1", "crashed"}))

\* the second name is the unknown one: the first agent was built, setup
\* failed and main exited
C26_Witness ==
  /\ s_pc = "exit1"
  /\ ~Unrecognized(s_algo1)
  /\ Unrecognized(s_algo2)
  /\ s_algo1 \in DOMAIN s_agents
  /\ s_error = [type |-> "ValueError", on |-> s_algo2]

(* ------------------------------ C27 ------------------------------------ *)
\* C27 as stated: whatever the map_file argument and whether or not the map
\* directory exists, once setup is past the choice of the board an initial
\* board is set and no error was raised by that choice.
C27_BoardAlwaysSet ==
  s_pc \notin {"start", "choose_board"} =>
    /\ s_board \in {"loaded", "default"}
    /\ s_error.type # "AttributeError"

(* ------------------------------ C28 ------------------------------------ *)
\* the value of an empty cell
EmptyCell == Zeros[1][1]

\* C28 as stated: in the row filled last, each of the first 7 characters of
\* the line gave its cell the first player's piece for B, the second
\* player's piece for W, a blocked value that differs from the empty value
\* for '#', and the empty value for every other character.
C28_CharactersToCells ==
  (l_pc = "rows" /\ l_r >= 1) =>
    LET chars == Strip(l_line)
    IN \A c \in 1..BoardDim :
         c <= Len(chars) =>
           /\ chars[c] = "B" => l_board[l_r][c] = 1
           /\ chars[c] = "W" => l_board[l_r][c] = -1
           /\ chars[c] = "#" => l_board[l_r][c] \notin {EmptyCell, 1, -1}
           /\ chars[c] \notin {"B", "W", "#"} => l_board[l_r][c] = EmptyCell

(* ------------------------------ C29 ------------------------------------ *)
TotalWarning == [kind |-> "total", agent |-> ""]
InconsistentWarning(n) == [kind |-> "inconsistent", agent |-> n]

\* C29: validation warns about the total exactly when the games recorded
\* across the identities differ from games_per_match * 2 * 2, and about an
\* identity exactly when its wins + losses + draws differ from its games
\* played; it changes no entry of the table and raises nothing, and the rows
\* of the table as it was are handed to persistence.
C29_ValidationOnlyWarns ==
  /\ [](v_pc \in {"validated", "saved"} =>
          /\ TotalWarning \in v_warnings <=>
               (v_results[algo1].games_played + v_results[algo2].games_played
                  # v_games_per_match * 2 * 2)
          /\ \A n \in {algo1, algo2} :
               InconsistentWarning(n) \in v_warnings <=> ~Consistent(v_results[n])
          /\ v_warnings \subseteq
               {TotalWarning, InconsistentWarning(algo1), InconsistentWarning(algo2)})
  /\ [][v_results' = v_results]_vars
  /\ [](v_pc = "validated" => ENABLED VSave)
  /\ [](v_pc = "saved" => v_saved = ResultRows(v_results, algo1, algo2))

\* a table with a wrong total and an inconsistent identity was warned about
\* and its rows were handed on unchanged
C29_Witness ==
  /\ v_pc = "saved"
  /\ TotalWarning \in v_warnings
  /\ InconsistentWarning(algo1) \in v_warnings
  /\ ~Consistent(v_results[algo1])
  /\ Len(v_saved) = 2
  /\ v_saved[1].TotalGames = v_results[algo1].games_played

(* ------------------------------ C30 ------------------------------------ *)
\* games the loops of the current run have counted as played
CountedThisRun == (round - 1) * games_per_match + game_num

\* C30: every run_tournament call starts by replacing the table with zeros
\* for both identities; when the run has returned, each identity's games
\* played is the number of games that run concluded, whatever an earlier
\* run left behind; and from the reset to the return the table changes only
\* where play_game records a concluded game.
C30_ResetEveryRun ==
  /\ [][(pc = "idle" /\ pc' = "round_loop") =>
          results' = NewResults(algo1, algo2)]_vars
  /\ [](pc = "done" =>
          \A n \in Identities :
            /\ results[n].games_played = CountedThisRun
            /\ results[n].games_played <= Len(games)
            /\ Consistent(results[n]))
  /\ [][(pc # "idle" /\ results' # results) =>
          pc \in {"game_end", "attribute"}]_vars

\* the first run completed and was saved; the second one was cancelled
\* after one game and shows that game only
C30_Witness ==
  /\ runs = 2
  /\ pc = "done"
  /\ ~running
  /\ Len(saved) = 1
  /\ saved[1][1].TotalGames = 2
  /\ \A n \in Identities : results[n].games_played = 1

\* the call failed to read or write the record store
StoreFailed == f_failed_at \in {"read_csv", "open", "write"}

\* C31: when save_results has returned on a platform with a file system,
\* either the record store holds the rows it had before followed by the new
\* rows (one per identity with a game), or reading or writing it failed, it
\* is as it was before the call and the new rows were printed.
C31_AppendsOrLeavesStore ==
  (f_pc = "returned" /\ f_platform # "Emscripten") =>
    \/ /\ ~StoreFailed
       /\ f_store.rows = f_store0.rows \o f_new
    \/ /\ StoreFailed
       /\ f_store = f_store0
       /\ f_printed = f_new

(* ------------------------------ C34 ------------------------------------ *)
\* the agent kinds that are built with an iteration budget
SamplingKinds == {"MCTSAgent", "MCTSDomainAgent", "ABMCTSDomainAgent"}

\* C34: once the rows are built, the Iterations of every row whose identity
\* was built with an iteration budget is that budget, also when the number
\* the name ends in replaced the configured default.
C34_RowRecordsAgentBudget ==
  f_pc \notin {"idle", "start"} =>
    \A i \in 1..Len(f_new) :
      s_agents[f_new[i].Agent].kind \in SamplingKinds =>
        f_new[i].Iterations = s_agents[f_new[i].Agent].iterations

(* ------------------------------ C33 ------------------------------------ *)
\* C33: when a completed game is counted, the piece counts added to the two
\* identities' cumulative counts are the pieces of each colour on the final
\* board, and so are the piece counts of the MatchResult that is returned.
C33_CountsAreFinalBoard ==
  [][/\ (pc = "game_end" /\ pc' = "attribute") =>
          /\ results'[current_x_player].avg_pieces =
               results[current_x_player].avg_pieces + state.x
          /\ results'[current_o_player].avg_pieces =
               results[current_o_player].avg_pieces + state.o
     /\ (pc = "attribute" /\ pc' = "game_returned") =>
          /\ result'[1].x_pieces = state.x
          /\ result'[1].o_pieces = state.o]_vars

(* ------------------------------ C32 ------------------------------------ *)
\* the identity has exactly w wins, l losses and d draws
Tally(name, w, l, d) ==
  /\ results[name].wins = w
  /\ results[name].losses = l
  /\ results[name].draws = d

\* C32 as stated: after a completed tournament of one game per round between
\* two names of the same deterministic strategy each identity has exactly
\* one win and one loss, and no draw.
C32_OneWinOneLossEach ==
  Completed => Tally(algo1, 1, 1, 0) /\ Tally(algo2, 1, 1, 0)

\* C32, amended: the two games end the same way. Either one colour won
\* both, and each identity has exactly one win and one loss and no draw, or
\* both were drawn, and each identity has two draws.
C32_SameOutcomeBothGames ==
  Completed =>
    \/ Tally(algo1, 1, 1, 0) /\ Tally(algo2, 1, 1, 0)
    \/ Tally(algo1, 0, 0, 2) /\ Tally(algo2, 0, 0, 2)

\* a completed tournament whose games had moves and a winner
C32_Witness ==
  /\ Completed
  /\ Len(d_played) > 0
  /\ Tally(algo1, 1, 1, 0)
  /\ Tally(algo2, 1, 1, 0)

(* ------------------------------ C36 ------------------------------------ *)
\* the games of a round that were started so far
StartedIn(r) == { i \in 1..Len(games) : games[i].round = r }

\* the games that ended with a recorded result so far
Recorded == results[algo1].games_played

\* C36: the games are played one after another: every game started before
\* the latest one has a recorded result, so at most one game is in progress
\* or was abandoned, and after an abandoned game none is started. Round 1
\* games come before Round 2 games, and Round 2 is entered, and a Round 2
\* game started, only when games_per_match Round 1 games were started and
\* all of them have a recorded result.
C36_GamesInSequence ==
  /\ Recorded <= Len(games)
  /\ Len(games) <= Recorded + 1
  /\ \A i, j \in 1..Len(games) : i < j => games[i].round <= games[j].round
  /\ (round = 2 \/ StartedIn(2) # {}) =>
       /\ Cardinality(StartedIn(1)) = games_per_match
       /\ Recorded >= games_per_match

\* a Round 2 game is in progress after two Round 1 games
C36_Witness ==
  /\ games_per_match = 2
  /\ Len(games) = 3
  /\ games[3].round = 2
  /\ pc = "in_get_move"

(* ------------------------------ C37 ------------------------------------ *)
\* C37: whatever calls a single producer has made on the store and on the
\* hybrid agent, while collection is inactive the name of the thinking
\* agent is empty.
C37_InactiveHasNoName ==
  ~is_enabled(move_score_manager) =>
    get_current_agent_name(move_score_manager) = ""

\* a session in which scores were recorded has been closed, and the hybrid
\* agent is asked for a move while collection is inactive
C37_Witness ==
  /\ h_pc = "delegated"
  /\ ~is_enabled(move_score_manager)
  /\ get_move_scores(move_score_manager) # EmptyMap
  /\ get_current_agent_name(move_score_manager) = ""

(* ------------------------------ C38 ------------------------------------ *)
\* C38: whatever entries the store holds, get_destination_scores gives the
\* same map for every order in which the entries can be iterated, and the
\* map a consumer was given is that map.
C38_OrderIndependent ==
  /\ \A o1, o2 \in Orders(DOMAIN move_score_manager.scores) :
       get_destination_scores(move_score_manager, o1) =
         get_destination_scores(move_score_manager, o2)
  /\ (c_pc = "holding" /\ c_op = "best_destination") =>
       \A o \in Orders(DOMAIN move_score_manager.scores) :
         observed[1] = get_destination_scores(move_score_manager, o)

\* a consumer was given the map of a store that holds two moves to (2,2)
\* with equal scores
C38_Witness ==
  /\ c_pc = "holding"
  /\ c_op = "best_destination"
  /\ {<<0, 0, 2, 2>>, <<3, 3, 2, 2>>} \subseteq DOMAIN move_score_manager.scores
  /\ move_score_manager.scores[<<0, 0, 2, 2>>] = move_score_manager.scores[<<3, 3, 2, 2>>]
  /\ <<2, 2>> \in DOMAIN observed[1]

(* ------------------------------ C35 ------------------------------------ *)
\* C35: a call that writes the store leaves the entries of a snapshot taken
\* before as they were, and a write to a snapshot leaves the entries of the
\* store, and so what later get_move_scores and get_destination_scores
\* calls return, as they were.
C35_SnapshotIsolated ==
  [][/\ (n_snap.taken /\ n_op' \in StoreCalls) => SnapEntries' = SnapEntries
     /\ n_op' = "snapshot_write" =>
          /\ get_move_scores(move_score_manager') = get_move_scores(move_score_manager)
          /\ \A o \in Orders(DOMAIN move_score_manager.scores) :
               get_destination_scores(move_score_manager', o) =
                 get_destination_scores(move_score_manager, o)]_vars

\* a snapshot with entries was taken, the store was cleared after it and
\* the snapshot written by its holder: the two now differ
C35_Witness ==
  /\ n_snap.taken
  /\ n_op = "snapshot_write"
  /\ get_move_scores(move_score_manager) = EmptyMap
  /\ DOMAIN SnapEntries = SnapMoves

(* ------------------------------ C39 ------------------------------------ *)
\* C39: the loop put in place of play_game makes the score-channel calls of
\* play_game: while an agent call is pending, collection is enabled, under
\* the name of the agent that is thinking or the label its hybrid agent
\* wrote.
C39_AgentCallInsideSession ==
  pc = "in_get_move" =>
    /\ is_enabled(move_score_manager)
    /\ get_current_agent_name(move_score_manager) \in
         {current_agent_name} \cup { DelegateLabel(d) : d \in invoked }

====
